---------------------------- MODULE Spec2Model ----------------------------
(***************************************************************************)
(* A model of the XLIFF part of vscode-nls-dev (src/src/main.ts): the XLF  *)
(* document class (addFile, setLanguageBundle, setLanguagePackage,         *)
(* toString), the entity encoding of texts, and XLF.parse.                 *)
(*                                                                         *)
(* Texts are sequences of symbols.  The symbols < > & " ' and the symbols  *)
(* that spell the entity names are single characters; any other symbol     *)
(* stands for a piece of text with no XML meaning.  An optional value      *)
(* (undefined in the source) is a sequence of length 0 or 1.               *)
(***************************************************************************)
EXTENDS Naturals, Sequences, FiniteSets, TLC

VARIABLES
    files,      \* XLF.files: the file groups in insertion order
    buffer,     \* XLF.buffer: the lines appended so far
    target,     \* XLF.target: the optional target language id
    last,       \* the last call made on the XLF object, with its arguments and outcome
    pc,         \* the position of the scenario
    arg,        \* the input of the scenario
    out         \* the values returned so far

vars == <<files, buffer, target, last, pc, arg, out>>

\* ------------------------------------------------------------------------
\* Bounds
\* ------------------------------------------------------------------------
MaxStrLen == 5      \* longest text given to encodeEntities
MaxKeys == 2        \* longest keys / messages / translations list

\* ------------------------------------------------------------------------
\* Helpers
\* ------------------------------------------------------------------------
None == <<>>
Some(v) == <<v>>
IsSome(o) == Len(o) = 1
Get(o) == o[1]

BoundedSeq(S, n) == UNION {[1..m -> S] : m \in 0..n}

\* F applied to v, with v computed once however often F uses it.
With(v, F(_)) == CHOOSE r \in {F(x) : x \in {v}} : TRUE

\* True when pat occurs in s at index i.
MatchAt(s, pat, i) ==
    /\ i + Len(pat) - 1 <= Len(s)
    /\ \A j \in 1..Len(pat) : s[i + j - 1] = pat[j]

RECURSIVE ReplaceFrom(_, _, _, _)
ReplaceFrom(s, pat, rep, i) ==
    IF i > Len(s) THEN <<>>
    ELSE IF MatchAt(s, pat, i)
         THEN rep \o ReplaceFrom(s, pat, rep, i + Len(pat))
         ELSE <<s[i]>> \o ReplaceFrom(s, pat, rep, i + 1)

\* String.prototype.replace with a global literal pattern: every occurrence,
\* left to right, non-overlapping, the replacement text not rescanned.
ReplaceAll(s, pat, rep) == ReplaceFrom(s, pat, rep, 1)

\* ------------------------------------------------------------------------
\* Entities
\* ------------------------------------------------------------------------
LT == <<"&", "l", "t", ";">>
GT == <<"&", "g", "t", ";">>
AMP == <<"&", "a", "m", "p", ";">>
QUOT == <<"&", "q", "u", "o", "t", ";">>
APOS == <<"&", "#", "3", "9", ";">>

encodeChar(ch) ==
    CASE ch = "<" -> LT
      [] ch = ">" -> GT
      [] ch = "&" -> AMP
      [] ch = "\"" -> QUOT
      [] ch = "'" -> APOS
      [] OTHER -> <<ch>>

RECURSIVE encodeFrom(_, _)
encodeFrom(value, i) ==
    IF i > Len(value) THEN <<>>
    ELSE encodeChar(value[i]) \o encodeFrom(value, i + 1)

encodeEntities(value) == encodeFrom(value, 1)

decodeEntities(value) ==
    ReplaceAll(ReplaceAll(ReplaceAll(ReplaceAll(ReplaceAll(value,
        LT, <<"<">>), GT, <<">">>), AMP, <<"&">>), QUOT, <<"\"">>), APOS, <<"'">>)

\* ------------------------------------------------------------------------
\* KeyInfo, MessageInfo, Item
\* ------------------------------------------------------------------------
\* A KeyInfo is a bare key or {key, comment}; a bare key is a KeyInfo without
\* comment.  A MessageInfo is a bare message or {message, comment}.
StringKey(k) == [key |-> k, comment |-> None]
CommentedKey(k, c) == [key |-> k, comment |-> Some(c)]
StringMessage(m) == [message |-> m, comment |-> None]

KeyInfo_key(value) == value.key
KeyInfo_comment(value) == value.comment
MessageInfo_message(value) == value.message
MessageInfo_comment(value) == value.comment

CRLF == "\r\n"

RECURSIVE Join(_, _)
Join(list, sep) ==
    IF Len(list) = 0 THEN <<>>
    ELSE IF Len(list) = 1 THEN list[1]
    ELSE list[1] \o sep \o Join(Tail(list), sep)

\* comments.map(comment => encodeEntities(comment)).join(`\r\n`)
encodeComments(comments) ==
    IF IsSome(comments)
    THEN Some(Join([i \in 1..Len(Get(comments)) |-> encodeEntities(Get(comments)[i])], <<CRLF>>))
    ELSE None

\* a ?? b
Coalesce(a, b) == IF IsSome(a) THEN a ELSE b

Item(id, message, comment) ==
    [id |-> id, message |-> message, comment |-> comment, target |-> None]

\* ------------------------------------------------------------------------
\* XLF.files: an object used as a map, its keys kept in insertion order
\* ------------------------------------------------------------------------
HasFile(fs, original) == \E i \in 1..Len(fs) : fs[i].original = original
FileIndex(fs, original) == CHOOSE i \in 1..Len(fs) : fs[i].original = original
ItemsOf(fs, original) == fs[FileIndex(fs, original)].items

\* SetFile that puts a new group in front of the others.
SetFilePrepend(fs, original, items) ==
    IF \E i \in 1..Len(fs) : fs[i].original = original
    THEN [fs EXCEPT ![CHOOSE i \in 1..Len(fs) : fs[i].original = original].items = items]
    ELSE <<[original |-> original, items |-> items]>> \o fs

\* this.files[original] = items
SetFile(fs, original, items) ==
    IF HasFile(fs, original)
    THEN [fs EXCEPT ![FileIndex(fs, original)].items = items]
    ELSE Append(fs, [original |-> original, items |-> items])

\* ------------------------------------------------------------------------
\* XLF.addFile
\* ------------------------------------------------------------------------
UnmatchingKeysMessages == "Un-matching keys and messages"
UnmatchingOriginal == "Un-matching original"
MissingTarget == "Missing target"
MismatchingTarget == "Mis-matching target"
UnmatchingKey == "Un-matching key in original"
NoItemIdOrValue == "No item ID or value specified"

\* addItems without the existingKeys test: every occurrence of a key makes an item.
RECURSIVE addItemsKeepAll(_, _, _, _, _)
addItemsKeepAll(keys, messages, i, existingKeys, items) ==
    IF i > Len(keys) THEN items
    ELSE addItemsKeepAll(keys, messages, i + 1, existingKeys,
            Append(items, Item(KeyInfo_key(keys[i]),
                               encodeEntities(MessageInfo_message(messages[i])),
                               encodeComments(Coalesce(KeyInfo_comment(keys[i]),
                                                       MessageInfo_comment(messages[i]))))))

RECURSIVE addItems(_, _, _, _, _)
addItems(keys, messages, i, existingKeys, items) ==
    IF i > Len(keys) THEN items
    ELSE LET keyInfo == keys[i]
             key == KeyInfo_key(keyInfo)
             messageInfo == messages[i]
             message == encodeEntities(MessageInfo_message(messageInfo))
             comment == encodeComments(
                 Coalesce(KeyInfo_comment(keyInfo), MessageInfo_comment(messageInfo)))
         IN IF key \in existingKeys
            THEN addItems(keys, messages, i + 1, existingKeys, items)
            ELSE addItems(keys, messages, i + 1, existingKeys \cup {key},
                          Append(items, Item(key, message, comment)))

\* addFile with the length test first: an empty keys list no longer returns early.
addFileLengthFirst(fs, original, keys, messages) ==
    IF Len(keys) # Len(messages)
    THEN [files |-> fs, error |-> Some(UnmatchingKeysMessages)]
    ELSE IF Len(keys) = 0 THEN [files |-> fs, error |-> None]
    ELSE [files |-> SetFile(fs, original, addItems(keys, messages, 1, {}, <<>>)),
          error |-> None]

addFile(fs, original, keys, messages) ==
    IF Len(keys) = 0 THEN [files |-> fs, error |-> None]
    ELSE IF Len(keys) # Len(messages)
    THEN [files |-> fs, error |-> Some(UnmatchingKeysMessages)]
    ELSE [files |-> SetFile(fs, original, addItems(keys, messages, 1, {}, <<>>)),
          error |-> None]

\* ------------------------------------------------------------------------
\* XLF.setLanguageBundle, XLF.setLanguagePackage
\* ------------------------------------------------------------------------
\* An overlay that gives the last translation to the first item.
setLanguageBundleReversed(fs, original, translation) ==
    IF ~HasFile(fs, original)
    THEN [files |-> fs, error |-> Some(UnmatchingOriginal)]
    ELSE IF ~IsSome(translation)
    THEN [files |-> fs, error |-> Some(MissingTarget)]
    ELSE IF Len(ItemsOf(fs, original)) # Len(Get(translation))
    THEN [files |-> fs, error |-> Some(MismatchingTarget)]
    ELSE LET file == ItemsOf(fs, original)
         IN [files |-> SetFile(fs, original,
                 [i \in 1..Len(file) |->
                     [file[i] EXCEPT !.target =
                         Some(encodeEntities(Get(translation)[Len(file) + 1 - i]))]]),
             error |-> None]

setLanguageBundle(fs, original, translation) ==
    IF ~HasFile(fs, original)
    THEN [files |-> fs, error |-> Some(UnmatchingOriginal)]
    ELSE IF ~IsSome(translation)
    THEN [files |-> fs, error |-> Some(MissingTarget)]
    ELSE IF Len(ItemsOf(fs, original)) # Len(Get(translation))
    THEN [files |-> fs, error |-> Some(MismatchingTarget)]
    ELSE LET file == ItemsOf(fs, original)
         IN [files |-> SetFile(fs, original,
                 [i \in 1..Len(file) |->
                     [file[i] EXCEPT !.target = Some(encodeEntities(Get(translation)[i]))]]),
             error |-> None]

\* find that takes the first item whatever its id.
FindFirstItem(file, key) == IF Len(file) > 0 THEN 1 ELSE 0

\* file.find(({ id }) => id === key): the index of the first such item, 0 when none
FindItem(file, key) ==
    IF \E i \in 1..Len(file) : file[i].id = key
    THEN CHOOSE i \in 1..Len(file) :
            /\ file[i].id = key
            /\ \A j \in 1..(i - 1) : file[j].id # key
    ELSE 0

\* for (const key in translation): the entries in insertion order; the loop
\* throws at the first key without an item, the targets set before it stay.
RECURSIVE setTargets(_, _, _)
setTargets(file, entries, n) ==
    IF n > Len(entries) THEN [items |-> file, error |-> None]
    ELSE LET entry == FindItem(file, entries[n].key)
         IN IF entry = 0
            THEN [items |-> file, error |-> Some(UnmatchingKey)]
            ELSE setTargets(
                    [file EXCEPT ![entry].target = Some(encodeEntities(entries[n].value))],
                    entries, n + 1)

setLanguagePackage(fs, original, translation) ==
    IF ~HasFile(fs, original)
    THEN [files |-> fs, error |-> Some(UnmatchingOriginal)]
    ELSE IF ~IsSome(translation)
    THEN [files |-> fs, error |-> Some(MissingTarget)]
    ELSE IF Len(ItemsOf(fs, original)) # Len(Get(translation))
    THEN [files |-> fs, error |-> Some(MismatchingTarget)]
    ELSE LET r == setTargets(ItemsOf(fs, original), Get(translation), 1)
         IN [files |-> SetFile(fs, original, r.items), error |-> r.error]

\* ------------------------------------------------------------------------
\* XLF.toString
\* ------------------------------------------------------------------------
\* The fixed pieces of the lines toString writes; each is one symbol.
XmlDecl == "<?xml version=\"1.0\" encoding=\"utf-8\"?>"
XliffOpen == "<xliff version=\"1.2\" xmlns=\"urn:oasis:names:tc:xliff:document:1.2\">"
XliffClose == "</xliff>"
FileOpenA == "<file original=\""
FileOpenB == "\" source-language=\"en\" "
TargetLangA == "target-language=\""
TargetLangB == "\" "
FileOpenC == "datatype=\"plaintext\"><body>"
FileClose == "</body></file>"
UnitOpenA == "<trans-unit id=\""
UnitOpenB == "\">"
UnitClose == "</trans-unit>"
SourceOpen == "<source xml:lang=\"en\">"
SourceClose == "</source>"
NoteOpen == "<note>"
NoteClose == "</note>"
TargetOpen == "<target>"
TargetClose == "</target>"

\* A JavaScript string used as a condition: false when undefined or empty.
Truthy(o) == IsSome(o) /\ Get(o) # <<>>

\* new Line(indent).append(content).toString()
Line(indent, content) == [i \in 1..indent |-> " "] \o content

appendNewLine(buf, content, indent) == Append(buf, Line(indent, content))

appendHeader(buf) ==
    appendNewLine(appendNewLine(buf, <<XmlDecl>>, 0), <<XliffOpen>>, 0)

appendFooter(buf) == appendNewLine(buf, <<XliffClose>>, 0)

addStringItem(buf, item) ==
    IF item.id = <<>> \/ item.message = <<>>
    THEN [buffer |-> buf, error |-> Some(NoItemIdOrValue)]
    ELSE LET b1 == appendNewLine(buf, <<UnitOpenA>> \o item.id \o <<UnitOpenB>>, 4)
             b2 == appendNewLine(b1, <<SourceOpen>> \o item.message \o <<SourceClose>>, 6)
             b3 == IF Truthy(item.comment)
                   THEN appendNewLine(b2, <<NoteOpen>> \o Get(item.comment) \o <<NoteClose>>, 6)
                   ELSE b2
             b4 == IF Truthy(item.target)
                   THEN appendNewLine(b3, <<TargetOpen>> \o Get(item.target) \o <<TargetClose>>, 6)
                   ELSE b3
         IN [buffer |-> appendNewLine(b4, <<UnitClose>>, 4), error |-> None]

RECURSIVE addStringItems(_, _, _)
addStringItems(buf, items, i) ==
    IF i > Len(items) THEN [buffer |-> buf, error |-> None]
    ELSE With(addStringItem(buf, items[i]),
              LAMBDA r : IF IsSome(r.error) THEN r
                         ELSE addStringItems(r.buffer, items, i + 1))

fileLine(original, tgt) ==
    <<FileOpenA>> \o original \o <<FileOpenB>>
        \o (IF Truthy(tgt) THEN <<TargetLangA>> \o Get(tgt) \o <<TargetLangB>> ELSE <<>>)
        \o <<FileOpenC>>

\* for (const file in this.files) { ... }
RECURSIVE appendFiles(_, _, _, _)
appendFiles(buf, fs, tgt, n) ==
    IF n > Len(fs) THEN [buffer |-> buf, error |-> None]
    ELSE With(addStringItems(appendNewLine(buf, fileLine(fs[n].original, tgt), 2),
                             fs[n].items, 1),
              LAMBDA r : IF IsSome(r.error) THEN r
                         ELSE appendFiles(appendNewLine(r.buffer, <<FileClose>>, 2),
                                          fs, tgt, n + 1))

\* The buffer is a field of the object: toString appends to what earlier calls
\* left in it.  The text is returned only when no item made addStringItem throw.
toString(buf, fs, tgt) ==
    With(appendFiles(appendHeader(buf), fs, tgt, 1),
         LAMBDA r :
            IF IsSome(r.error)
            THEN [buffer |-> r.buffer, text |-> None, error |-> r.error]
            ELSE With(appendFooter(r.buffer),
                      LAMBDA b : [buffer |-> b, text |-> Some(Join(b, <<CRLF>>)),
                                  error |-> None]))

\* ------------------------------------------------------------------------
\* The object tree xml2js hands to the callback of parseString
\* ------------------------------------------------------------------------
\* A value found where a text is expected: undefined, a string, an object
\* (with or without the text field _) or an array of strings and objects.
Undefined == [t |-> "undefined"]
StrNode(v) == [t |-> "string", v |-> v]
ObjNode(text) == [t |-> "object", text |-> text]
ArrNode(elems) == [t |-> "array", elems |-> elems]

\* A node used as a condition: undefined and the empty string are false.
TruthyNode(n) ==
    IF n.t = "undefined" THEN FALSE
    ELSE IF n.t = "string" THEN n.v # <<>>
    ELSE TRUE

TemplateSymbols ==
    {XmlDecl, XliffOpen, XliffClose, FileOpenA, FileOpenB, TargetLangA, TargetLangB,
     FileOpenC, FileClose, UnitOpenA, UnitOpenB, UnitClose, SourceOpen, SourceClose,
     NoteOpen, NoteClose, TargetOpen, TargetClose}
Whitespace == {" ", CRLF}

At(t, i) == IF i <= Len(t) THEN t[i] ELSE "end of text"

RECURSIVE SkipWs(_, _)
SkipWs(t, i) == IF i <= Len(t) /\ t[i] \in Whitespace THEN SkipWs(t, i + 1) ELSE i

RECURSIVE ScanTo(_, _, _)
ScanTo(t, i, stops) ==
    IF i > Len(t) \/ t[i] \in stops THEN i ELSE ScanTo(t, i + 1, stops)

\* The character references an XML parser resolves in texts and attribute values.
XmlEntities ==
    {[name |-> LT, char |-> "<"], [name |-> GT, char |-> ">"], [name |-> AMP, char |-> "&"],
     [name |-> QUOT, char |-> "\""], [name |-> APOS, char |-> "'"],
     [name |-> <<"&", "a", "p", "o", "s", ";">>, char |-> "'"]}

RECURSIVE XmlDecodeFrom(_, _)
XmlDecodeFrom(s, i) ==
    IF i > Len(s) THEN [ok |-> TRUE, value |-> <<>>]
    ELSE IF s[i] = "&"
    THEN IF \E e \in XmlEntities : MatchAt(s, e.name, i)
         THEN LET e == CHOOSE x \in XmlEntities : MatchAt(s, x.name, i)
                  r == XmlDecodeFrom(s, i + Len(e.name))
              IN [ok |-> r.ok, value |-> <<e.char>> \o r.value]
         ELSE [ok |-> FALSE, value |-> <<>>]
    ELSE LET r == XmlDecodeFrom(s, i + 1)
         IN [ok |-> r.ok, value |-> <<s[i]>> \o r.value]

\* An attribute value runs to the closing quote; a raw quote or < ends or breaks it.
XmlAttribute(t, i, close) ==
    With(ScanTo(t, i, TemplateSymbols \cup {"\"", "<"}), LAMBDA j :
    With(XmlDecodeFrom(SubSeq(t, i, j - 1), 1), LAMBDA d :
        [ok |-> At(t, j) = close /\ d.ok, value |-> d.value, next |-> j + 1]))

\* The text of an element runs to its end tag; a raw < starts markup.
XmlText(t, i, close) ==
    With(ScanTo(t, i, TemplateSymbols \cup {"<"}), LAMBDA j :
    With(XmlDecodeFrom(SubSeq(t, i, j - 1), 1), LAMBDA d :
        [ok |-> At(t, j) = close /\ d.ok, value |-> d.value, next |-> j + 1]))

\* An element that may be missing at position i.
XmlOptional(t, i, open, close) ==
    IF At(t, i) = open
    THEN With(XmlText(t, i + 1, close), LAMBDA e :
            [present |-> TRUE, ok |-> e.ok, value |-> e.value, next |-> e.next])
    ELSE [present |-> FALSE, ok |-> TRUE, value |-> <<>>, next |-> i]

\* <source xml:lang="en">text</source>: an element with an attribute is an
\* object; its text field is left out when the text is blank.
SourceElement(text) ==
    ArrNode(<<ObjNode(IF \A i \in 1..Len(text) : text[i] \in Whitespace
                      THEN None ELSE Some(text))>>)
\* <target>text</target>: an element without attributes is its text.
TargetElement(text) == ArrNode(<<StrNode(text)>>)

XmlUnit(t, i) ==
    With(XmlAttribute(t, i + 1, UnitOpenB), LAMBDA id :
    With(SkipWs(t, id.next), LAMBDA i2 :
    With(XmlText(t, i2 + 1, SourceClose), LAMBDA src :
    With(XmlOptional(t, SkipWs(t, src.next), NoteOpen, NoteClose), LAMBDA note :
    With(XmlOptional(t, SkipWs(t, note.next), TargetOpen, TargetClose), LAMBDA tgt :
    With(SkipWs(t, tgt.next), LAMBDA i5 :
        [ok |-> /\ id.ok /\ At(t, i2) = SourceOpen /\ src.ok /\ note.ok /\ tgt.ok
                /\ At(t, i5) = UnitClose,
         node |-> [attrs |-> Some([id |-> Some(id.value)]),
                   source |-> SourceElement(src.value),
                   target |-> IF tgt.present THEN TargetElement(tgt.value) ELSE Undefined],
         next |-> i5 + 1]))))))

RECURSIVE XmlUnits(_, _, _)
XmlUnits(t, i, acc) ==
    With(SkipWs(t, i), LAMBDA j :
        IF At(t, j) = UnitOpenA
        THEN With(XmlUnit(t, j), LAMBDA u :
                IF u.ok THEN XmlUnits(t, u.next, Append(acc, u.node))
                ELSE [ok |-> FALSE, nodes |-> acc, next |-> j])
        ELSE [ok |-> TRUE, nodes |-> acc, next |-> j])

XmlFile(t, i) ==
    With(XmlAttribute(t, i + 1, FileOpenB), LAMBDA orig :
    With(IF At(t, orig.next) = TargetLangA
         THEN With(XmlAttribute(t, orig.next + 1, TargetLangB), LAMBDA a :
                 [present |-> TRUE, ok |-> a.ok, value |-> a.value, next |-> a.next])
         ELSE [present |-> FALSE, ok |-> TRUE, value |-> <<>>, next |-> orig.next],
         LAMBDA lang :
    With(XmlUnits(t, lang.next + 1, <<>>), LAMBDA units :
        [ok |-> /\ orig.ok /\ lang.ok /\ At(t, lang.next) = FileOpenC
                /\ units.ok /\ At(t, units.next) = FileClose,
         node |-> [attrs |-> Some([original |-> Some(orig.value),
                                   targetLanguage |->
                                       IF lang.present THEN Some(lang.value) ELSE None]),
                   body |-> Some([transUnits |->
                                   IF units.nodes = <<>> THEN None ELSE Some(units.nodes)])],
         next |-> units.next + 1])))

RECURSIVE XmlFiles(_, _, _)
XmlFiles(t, i, acc) ==
    With(SkipWs(t, i), LAMBDA j :
        IF At(t, j) = FileOpenA
        THEN With(XmlFile(t, j), LAMBDA f :
                IF f.ok THEN XmlFiles(t, f.next, Append(acc, f.node))
                ELSE [ok |-> FALSE, nodes |-> acc, next |-> j])
        ELSE [ok |-> TRUE, nodes |-> acc, next |-> j])

\* parser.parseString(xlfString, callback): the arguments (err, result) of the
\* callback.  One root element, nothing but white space after it.
XmlParse(t) ==
    With(SkipWs(t, 2), LAMBDA i1 :
    With(XmlFiles(t, i1 + 1, <<>>), LAMBDA fs :
        IF /\ At(t, 1) = XmlDecl /\ At(t, i1) = XliffOpen /\ fs.ok
           /\ At(t, fs.next) = XliffClose
           /\ SkipWs(t, fs.next + 1) = Len(t) + 1
        THEN [err |-> FALSE,
              result |-> Some([xliff |-> Some([file |->
                           IF fs.nodes = <<>> THEN None ELSE Some(fs.nodes)])])]
        ELSE [err |-> TRUE, result |-> None]))

\* ------------------------------------------------------------------------
\* XLF.parse
\* ------------------------------------------------------------------------
ParseFailed == "Failed to parse XLIFF string"
NoFileNode == "XLIFF file does not contain xliff or file node(s) required for parsing"
NoOriginal == "XLIFF file node does not contain original attribute"
NoTargetLanguage == "XLIFF file node does not contain target-language attribute"
NoFullData == "XLIFF file does not contain full localization data"
TypeError == "TypeError"

\* getValue: thrown tells that reading target._ threw because target is undefined.
getValue(tgt) ==
    IF tgt.t = "string" THEN [thrown |-> FALSE, value |-> Some(tgt.v)]
    ELSE IF tgt.t = "undefined" THEN [thrown |-> TRUE, value |-> None]
    ELSE IF tgt.t = "object" /\ IsSome(tgt.text) THEN [thrown |-> FALSE, value |-> tgt.text]
    ELSE IF tgt.t = "array" /\ Len(tgt.elems) = 1
    THEN LET item == tgt.elems[1]
         IN IF item.t = "string" THEN [thrown |-> FALSE, value |-> Some(item.v)]
            ELSE [thrown |-> FALSE, value |-> item.text]
    ELSE [thrown |-> FALSE, value |-> None]

\* String.prototype.toLowerCase on the letters the language ids use.
LowerCase(ch) ==
    CASE ch = "D" -> "d"
      [] ch = "E" -> "e"
      [] OTHER -> ch
toLowerCase(text) == [i \in 1..Len(text) |-> LowerCase(text[i])]

\* messages[key] = value on an object: a new key goes last, a known key keeps its place.
PutMessage(messages, key, value) ==
    IF \E i \in 1..Len(messages) : messages[i].key = key
    THEN [i \in 1..Len(messages) |->
            IF messages[i].key = key THEN [key |-> key, value |-> value] ELSE messages[i]]
    ELSE Append(messages, [key |-> key, value |-> value])

\* The run of the callback: the files pushed, the reasons reject() was called
\* with, and whether an exception ended the run.  An exception thrown by the
\* callback leaves parseString and the executor of the promise, which rejects.
\* reject() that records nothing.
RejectIgnored(run, reason) == run

Reject(run, reason) == [run EXCEPT !.rejects = Append(@, reason)]
Throw(run) == [run EXCEPT !.rejects = Append(@, TypeError), !.thrown = TRUE]

\* The target alone, whether the unit has one or not.
TargetOnly(unit) == unit.target

\* unit.target || unit.source
TargetOrSource(unit) == IF TruthyNode(unit.target) THEN unit.target ELSE unit.source

parseUnit(run, messages, unit, forceLanguage) ==
    IF ~IsSome(unit.attrs) THEN [run |-> Throw(run), messages |-> messages]
    ELSE LET key == Get(unit.attrs).id
         IN IF forceLanguage /\ ~TruthyNode(unit.target)
            THEN [run |-> run, messages |-> messages]
            ELSE LET val == getValue(TargetOrSource(unit))
                 IN IF val.thrown THEN [run |-> Throw(run), messages |-> messages]
                    ELSE IF Truthy(key) /\ Truthy(val.value)
                    THEN [run |-> run,
                          messages |-> PutMessage(messages, Get(key),
                                                  decodeEntities(Get(val.value)))]
                    ELSE IF forceLanguage
                    THEN [run |-> Reject(run, NoFullData), messages |-> messages]
                    ELSE [run |-> run, messages |-> messages]

RECURSIVE parseUnits(_, _, _, _, _)
parseUnits(run, messages, units, n, forceLanguage) ==
    IF n > Len(units) \/ run.thrown THEN [run |-> run, messages |-> messages]
    ELSE LET r == parseUnit(run, messages, units[n], forceLanguage)
         IN parseUnits(r.run, r.messages, units, n + 1, forceLanguage)

\* A push at the front of the list.
unshiftFile(run, entry) == [run EXCEPT !.files = <<entry>> \o @]

\* files.push({ messages, originalFilePath, language })
pushFile(run, entry) == [run EXCEPT !.files = Append(@, entry)]

parseFile(run, file, forceLanguage) ==
    IF ~IsSome(file.attrs) THEN Throw(run)
    ELSE LET originalFilePath == Get(file.attrs).original
             language == IF IsSome(Get(file.attrs).targetLanguage)
                         THEN Some(toLowerCase(Get(Get(file.attrs).targetLanguage)))
                         ELSE None
             r1 == IF ~Truthy(originalFilePath) THEN Reject(run, NoOriginal) ELSE run
             r2 == IF forceLanguage /\ ~Truthy(language)
                   THEN Reject(r1, NoTargetLanguage) ELSE r1
         IN IF ~IsSome(file.body) THEN Throw(r2)
            ELSE LET transUnits == Get(file.body).transUnits
                 IN IF ~IsSome(transUnits) THEN r2
                    ELSE LET r == parseUnits(r2, <<>>, Get(transUnits), 1, forceLanguage)
                         IN IF r.run.thrown THEN r.run
                            ELSE pushFile(r.run,
                                    [messages |-> r.messages,
                                     originalFilePath |-> originalFilePath,
                                     language |-> language])

RECURSIVE parseFiles(_, _, _, _)
parseFiles(run, fileNodes, n, forceLanguage) ==
    IF n > Len(fileNodes) \/ run.thrown THEN run
    ELSE parseFiles(parseFile(run, fileNodes[n], forceLanguage), fileNodes, n + 1,
                    forceLanguage)

parseCallback(err, result, forceLanguage) ==
    LET run0 == [files |-> <<>>, rejects |-> <<>>, thrown |-> FALSE]
        run1 == IF err THEN Reject(run0, ParseFailed) ELSE run0
    IN IF ~IsSome(result) THEN Throw(run1)
       ELSE IF ~IsSome(Get(result).xliff) THEN Throw(run1)
       ELSE LET fileNodes == Get(Get(result).xliff).file
            IN IF ~IsSome(fileNodes) THEN Throw(Reject(run1, NoFileNode))
               ELSE parseFiles(run1, Get(fileNodes), 1, forceLanguage)

\* The promise: the first reject() or the exception settles it; resolve(files)
\* at the end of the callback settles it only when nothing did before.
Settle(run) ==
    IF run.rejects # <<>>
    THEN [state |-> "rejected", reason |-> Some(run.rejects[1]), value |-> None]
    ELSE [state |-> "resolved", reason |-> None, value |-> Some(run.files)]

parseResult(parsed, forceLanguage) ==
    Settle(parseCallback(parsed.err, parsed.result, forceLanguage))

parse(xlfString, forceLanguage) ==
    With(XmlParse(xlfString), LAMBDA parsed : parseResult(parsed, forceLanguage))

\* ------------------------------------------------------------------------
\* Scenario: one text through encodeEntities and decodeEntities
\* ------------------------------------------------------------------------
EntityAlphabet == {"<", ">", "&", "\"", "'", "#", "3", "9", ";"}

Idle == [op |-> "new", original |-> <<>>, keys |-> <<>>, messages |-> <<>>,
         translation |-> <<>>, error |-> <<>>]

InitEntities ==
    /\ arg \in BoundedSeq(EntityAlphabet, MaxStrLen)
    /\ pc = "value"
    /\ out = [encoded |-> None, decoded |-> None]
    /\ files = <<>> /\ buffer = <<>> /\ target = None /\ last = Idle

Encode ==
    /\ pc = "value"
    /\ out' = [out EXCEPT !.encoded = Some(encodeEntities(arg))]
    /\ pc' = "encoded"
    /\ UNCHANGED <<files, buffer, target, last, arg>>

Decode ==
    /\ pc = "encoded"
    /\ out' = [out EXCEPT !.decoded = Some(decodeEntities(Get(out.encoded)))]
    /\ pc' = "decoded"
    /\ UNCHANGED <<files, buffer, target, last, arg>>

NextEntities == Encode \/ Decode

SpecEntities == InitEntities /\ [][NextEntities]_vars

\* C2: for every text s over the alphabet, decodeEntities(encodeEntities(s)) = s.
EntityRoundTrip == pc = "decoded" => Get(out.decoded) = arg

\* ------------------------------------------------------------------------
\* Scenario: calls on one XLF object
\* ------------------------------------------------------------------------
\* A fatal error aborts the run: no call follows a call that threw.
Package == <<"package">>
ModuleA == <<"out/a">>
SpecOriginals == {Package, ModuleA}
KeyK == <<"k">>
KeyJ == <<"j">>
SpecKeyInfos == {StringKey(KeyK), StringKey(KeyJ)}
SpecMessages == {StringMessage(<<"<">>), StringMessage(<<>>)}
SpecTranslationTexts == {<<"'">>, <<"t">>}
SpecTranslationKeys == {KeyK, KeyJ, <<"x">>}

\* A translated package bundle: the entries of a JSON object, its keys distinct.
PackageBundles(n) ==
    {e \in BoundedSeq([key : SpecTranslationKeys, value : SpecTranslationTexts], n) :
        \A i, j \in 1..Len(e) : e[i].key = e[j].key => i = j}

Call(op, original, keys, messages, translation, error) ==
    [op |-> op, original |-> original, keys |-> keys, messages |-> messages,
     translation |-> translation, error |-> error]

Running == last.error = None

InitXlf ==
    /\ files = <<>>
    /\ buffer = <<>>
    /\ target = None
    /\ last = Idle
    /\ pc = "xlf" /\ arg = None /\ out = None

AddFile ==
    /\ pc = "xlf" /\ Running
    /\ \E original \in SpecOriginals,
          keys \in BoundedSeq(SpecKeyInfos, MaxKeys),
          messages \in BoundedSeq(SpecMessages, MaxKeys) :
          LET r == addFile(files, original, keys, messages)
          IN /\ files' = r.files
             /\ last' = Call("addFile", original, keys, messages, None, r.error)
    /\ UNCHANGED <<buffer, target, pc, arg, out>>

Next == AddFile

Spec == InitXlf /\ [][Next]_vars

\* The index of the first occurrence of a key id in a keys list.
FirstIndex(keys, key) ==
    CHOOSE i \in 1..Len(keys) :
        /\ KeyInfo_key(keys[i]) = key
        /\ \A j \in 1..(i - 1) : KeyInfo_key(keys[j]) # key

KeyIds(keys) == {KeyInfo_key(keys[i]) : i \in 1..Len(keys)}

\* The lines of a serialized document that open the trans-unit of an id.
UnitLines(lines, id) ==
    {n \in 1..Len(lines) : lines[n] = Line(4, <<UnitOpenA>> \o id \o <<UnitOpenB>>)}

\* The last call was an addFile that built a group from its lists.
AddFileBuilt ==
    /\ last.op = "addFile" /\ last.error = None /\ Len(last.keys) > 0

\* C3: in every file group the item ids are pairwise distinct; the group the
\* last addFile built holds one item per distinct key id, with the message
\* (escaped) found at the first index of that id, and the serialized document
\* opens one trans-unit per id of a group.
DistinctIds ==
    /\ \A g \in 1..Len(files) : \A i, j \in 1..Len(files[g].items) :
          files[g].items[i].id = files[g].items[j].id => i = j
    /\ AddFileBuilt =>
          LET items == ItemsOf(files, last.original)
          IN /\ {items[i].id : i \in 1..Len(items)} = KeyIds(last.keys)
             /\ \A i \in 1..Len(items) :
                   items[i].message = encodeEntities(MessageInfo_message(
                       last.messages[FirstIndex(last.keys, items[i].id)]))
    /\ LET text == toString(<<>>, files, target)
       IN text.error = None =>
             \A id \in {KeyK, KeyJ} :
                Cardinality(UnitLines(text.buffer, id))
                    = Cardinality({g \in 1..Len(files) :
                          \E i \in 1..Len(files[g].items) : files[g].items[i].id = id})

\* C3 witness: a key id given twice with two messages made one item, the first.
DuplicateKeySkipped ==
    /\ AddFileBuilt
    /\ Len(last.keys) = 2
    /\ KeyInfo_key(last.keys[1]) = KeyInfo_key(last.keys[2])
    /\ last.messages[1] # last.messages[2]
    /\ Len(ItemsOf(files, last.original)) = 1
    /\ toString(<<>>, files, target).error = None

BuiltDocuments ==
    {addFile(addFile(<<>>, o1, k1, m1).files, o2, k2, m2).files :
        o1 \in SpecOriginals, o2 \in SpecOriginals,
        k1 \in BoundedSeq(SpecKeyInfos, MaxKeys), k2 \in BoundedSeq(SpecKeyInfos, MaxKeys),
        m1 \in BoundedSeq({StringMessage(<<"<">>)}, MaxKeys),
        m2 \in BoundedSeq({StringMessage(<<"<">>)}, MaxKeys)}

\* A document whose items have comments, from the key and from the message.
CommentedDocuments ==
    {addFile(addFile(<<>>, Package,
                     <<CommentedKey(KeyK, <<<<"c">>>>), StringKey(KeyJ)>>,
                     <<StringMessage(<<"<">>), StringMessage(<<"a">>)>>).files,
             ModuleA, <<CommentedKey(KeyJ, <<<<"d">>, <<"&">>>>)>>,
             <<StringMessage(<<"b">>)>>).files}

InitOverlay ==
    /\ files \in BuiltDocuments \cup CommentedDocuments
    /\ buffer = <<>>
    /\ target = Some(<<"de">>)
    /\ last = Idle
    /\ pc = "xlf" /\ arg = None /\ out = None

SetLanguageBundle ==
    /\ pc = "xlf" /\ Running
    /\ \E original \in SpecOriginals,
          translation \in {None} \cup {Some(t) : t \in BoundedSeq(SpecTranslationTexts, MaxKeys)} :
          LET r == setLanguageBundle(files, original, translation)
          IN /\ files' = r.files
             /\ last' = Call("setLanguageBundle", original, <<>>, <<>>, translation, r.error)
    /\ UNCHANGED <<buffer, target, pc, arg, out>>

SetLanguagePackage ==
    /\ pc = "xlf" /\ Running
    /\ \E original \in SpecOriginals,
          translation \in {None} \cup {Some(t) : t \in PackageBundles(MaxKeys)} :
          LET r == setLanguagePackage(files, original, translation)
          IN /\ files' = r.files
             /\ last' = Call("setLanguagePackage", original, <<>>, <<>>, translation, r.error)
    /\ UNCHANGED <<buffer, target, pc, arg, out>>

NextOverlay == SetLanguageBundle \/ SetLanguagePackage

SpecOverlay == InitOverlay /\ [][NextOverlay]_vars

\* The translations of a call: the texts of a language bundle, the values of a
\* package bundle.
TranslationTexts(call) ==
    IF call.op = "setLanguageBundle"
    THEN {Get(call.translation)[i] : i \in 1..Len(Get(call.translation))}
    ELSE {Get(call.translation)[i].value : i \in 1..Len(Get(call.translation))}

\* C5: setLanguageBundle and setLanguagePackage raise their error when the
\* group does not exist, the translations are absent or their number differs
\* from the number of items of the group; and no call applies a part of a set:
\* a call either leaves the file groups as they were or has given every item
\* of the group a target from the set, as many translations as items.
OverlayWholeOrNothing ==
    [][last'.op \in {"setLanguageBundle", "setLanguagePackage"} =>
         /\ (\/ ~HasFile(files, last'.original)
             \/ ~IsSome(last'.translation)
             \/ Len(Get(last'.translation)) # Len(ItemsOf(files, last'.original)))
               => (IsSome(last'.error) /\ files' = files)
         /\ \/ files' = files
            \/ LET items == ItemsOf(files', last'.original)
               IN /\ Len(Get(last'.translation)) = Len(items)
                  /\ \A i \in 1..Len(items) :
                        /\ IsSome(items[i].target)
                        /\ \E t \in TranslationTexts(last') :
                              Get(items[i].target) = encodeEntities(t)]_vars

\* C6: setLanguagePackage raises an error when a key of the translations is
\* not the id of an item of the group; when it returns normally every item of
\* the group has the escaped translation stored under its id as target.
PackageMatchedById ==
    [][last'.op = "setLanguagePackage" =>
         /\ (/\ IsSome(last'.translation)
             /\ \E n \in 1..Len(Get(last'.translation)) :
                   \/ ~HasFile(files, last'.original)
                   \/ \A i \in 1..Len(ItemsOf(files, last'.original)) :
                         ItemsOf(files, last'.original)[i].id # Get(last'.translation)[n].key)
               => IsSome(last'.error)
         /\ last'.error = None =>
               LET items == ItemsOf(files', last'.original)
                   entries == Get(last'.translation)
               IN \A i \in 1..Len(items) :
                     \E n \in 1..Len(entries) :
                        /\ entries[n].key = items[i].id
                        /\ items[i].target = Some(encodeEntities(entries[n].value))]_vars

\* C6 witness: two translations given in the other order than the items, with
\* different texts, each reached the item of its id.
PackageOutOfOrder ==
    /\ last.op = "setLanguagePackage" /\ last.error = None
    /\ Len(ItemsOf(files, last.original)) = 2
    /\ LET items == ItemsOf(files, last.original)
           entries == Get(last.translation)
       IN /\ entries[1].key = items[2].id
          /\ entries[1].value # entries[2].value
          /\ items[2].target = Some(encodeEntities(entries[1].value))

\* ------------------------------------------------------------------------
\* Scenario: a document built by addFile, serialized and parsed back
\* ------------------------------------------------------------------------
RoundTripKeys == {StringKey(KeyK), CommentedKey(KeyJ, <<<<"c">>>>)}
RoundTripMessages ==
    {StringMessage(<<"a">>), StringMessage(<<"<">>), StringMessage(LT), StringMessage(<<>>)}

InitRoundTrip ==
    /\ arg \in {[original |-> o, keys |-> k, messages |-> m] :
                  o \in SpecOriginals,
                  k \in BoundedSeq(RoundTripKeys, MaxKeys),
                  m \in BoundedSeq(RoundTripMessages, MaxKeys)}
    /\ Len(arg.keys) = Len(arg.messages)
    /\ pc = "input"
    /\ out = [text |-> None, parsed |-> None]
    /\ files = <<>> /\ buffer = <<>> /\ target = None /\ last = Idle

Build ==
    /\ pc = "input"
    /\ LET r == addFile(files, arg.original, arg.keys, arg.messages)
       IN /\ files' = r.files
          /\ last' = Call("addFile", arg.original, arg.keys, arg.messages, None, r.error)
    /\ pc' = "built"
    /\ UNCHANGED <<buffer, target, arg, out>>

Serialize ==
    /\ pc = "built"
    /\ LET r == toString(buffer, files, target)
       IN /\ buffer' = r.buffer
          /\ out' = [out EXCEPT !.text = r.text]
          /\ last' = Call("toString", <<>>, <<>>, <<>>, None, r.error)
    /\ pc' = "serialized"
    /\ UNCHANGED <<files, target, arg>>

ParseBack ==
    /\ pc = "serialized" /\ Running
    /\ out' = [out EXCEPT !.parsed = Some(parse(Get(out.text), FALSE))]
    /\ pc' = "parsed"
    /\ UNCHANGED <<files, buffer, target, last, arg>>

NextRoundTrip == Build \/ Serialize \/ ParseBack

SpecRoundTrip == InitRoundTrip /\ [][NextRoundTrip]_vars

\* messages[key] of a parsed file group, absent when the key is not in the map.
MessageOf(messages, key) ==
    IF \E i \in 1..Len(messages) : messages[i].key = key
    THEN Some(messages[CHOOSE i \in 1..Len(messages) : messages[i].key = key].value)
    ELSE None

\* C1: for keys and messages of equal length, the document built by addFile,
\* serialized by toString and parsed with forceLanguage = false resolves with a
\* file group of the original whose message map holds messages[i] under the
\* key of keys[i], for every index i.
XlfRoundTrip ==
    (pc = "parsed" /\ Len(arg.keys) > 0) =>
        LET promise == Get(out.parsed)
        IN /\ promise.state = "resolved"
           /\ \E n \in 1..Len(Get(promise.value)) :
                 LET entry == Get(promise.value)[n]
                 IN /\ entry.originalFilePath = Some(arg.original)
                    /\ \A i \in 1..Len(arg.keys) :
                          MessageOf(entry.messages, KeyInfo_key(arg.keys[i]))
                              = Some(MessageInfo_message(arg.messages[i]))

\* ------------------------------------------------------------------------
\* Scenario: XLF.parse on one document
\* ------------------------------------------------------------------------
\* The document is given as xml2js reads it.  A trans-unit has no attribute,
\* attributes without id, an empty id, or an id; no target, an empty target, a target with
\* text, or a target with an attribute and a text that holds an entity; a
\* source with text, an empty source, or no source.
MaxUnits == 2

UnitAttrs ==
    {None, Some([id |-> None]), Some([id |-> Some(<<>>)]),
     Some([id |-> Some(KeyK)]), Some([id |-> Some(KeyJ)])}
UnitTargets ==
    {Undefined, TargetElement(<<>>), TargetElement(<<"t">>), ArrNode(<<ObjNode(Some(LT))>>)}
UnitSources == {SourceElement(<<"s">>), SourceElement(<<>>), Undefined}
SpecUnits == [attrs : UnitAttrs, source : UnitSources, target : UnitTargets]

TranslatedUnit ==
    [attrs |-> Some([id |-> Some(KeyK)]), source |-> SourceElement(<<"s">>),
     target |-> TargetElement(<<"t">>)]
UntranslatedUnit ==
    [attrs |-> Some([id |-> Some(KeyJ)]), source |-> SourceElement(<<"s">>),
     target |-> Undefined]
PlainUnits == {TranslatedUnit, UntranslatedUnit}

\* Lists of units: any one unit among plain ones.
UnitLists ==
    {us \in BoundedSeq(SpecUnits, MaxUnits) :
        \A i, j \in 1..Len(us) : (us[i] \notin PlainUnits /\ us[j] \notin PlainUnits) => i = j}

FileAttrs ==
    {None,
     Some([original |-> None, targetLanguage |-> Some(<<"D", "E">>)]),
     Some([original |-> Some(ModuleA), targetLanguage |-> None]),
     Some([original |-> Some(ModuleA), targetLanguage |-> Some(<<"D", "E">>)])}

\* body[0]['trans-unit'] is an array of the units, undefined when there is none.
BodyOf(us) == Some([transUnits |-> IF us = <<>> THEN None ELSE Some(us)])

SpecFiles ==
    {[attrs |-> a, body |-> b] :
        a \in FileAttrs, b \in {None} \cup {BodyOf(us) : us \in UnitLists}}

PlainAttrs == Some([original |-> Some(Package), targetLanguage |-> Some(<<"d", "e">>)])
PlainFiles ==
    {[attrs |-> PlainAttrs, body |-> BodyOf(<<TranslatedUnit>>)],
     [attrs |-> PlainAttrs, body |-> BodyOf(<<>>)]}

\* One file alone, or with a plain file before or after it.
Tree(fileNodes) ==
    [err |-> FALSE, result |-> Some([xliff |-> Some([file |-> Some(fileNodes)])])]
SpecDocuments ==
    {Tree(<<f>>) : f \in SpecFiles}
        \cup {Tree(<<p, f>>) : p \in PlainFiles, f \in SpecFiles}
        \cup {Tree(<<f, p>>) : p \in PlainFiles, f \in SpecFiles}
        \cup {[err |-> TRUE, result |-> None],
              [err |-> FALSE, result |-> Some([xliff |-> None])],
              [err |-> FALSE, result |-> Some([xliff |-> Some([file |-> None])])]}

InitParse ==
    /\ arg \in [doc : SpecDocuments, forceLanguage : BOOLEAN]
    /\ pc = "document"
    /\ out = None
    /\ files = <<>> /\ buffer = <<>> /\ target = None /\ last = Idle

Parse ==
    /\ pc = "document"
    /\ out' = Some(parseResult(arg.doc, arg.forceLanguage))
    /\ pc' = "settled"
    /\ UNCHANGED <<files, buffer, target, last, arg>>

NextParse == Parse

SpecParse == InitParse /\ [][NextParse]_vars

\* The file nodes of a document, none when it has no xliff or no file node.
DocFiles(doc) ==
    IF /\ IsSome(doc.result)
       /\ IsSome(Get(doc.result).xliff)
       /\ IsSome(Get(Get(doc.result).xliff).file)
    THEN Get(Get(Get(doc.result).xliff).file)
    ELSE <<>>

HasOriginal(file) == IsSome(file.attrs) /\ Truthy(Get(file.attrs).original)
HasLanguage(file) == IsSome(file.attrs) /\ Truthy(Get(file.attrs).targetLanguage)
HasUnits(file) == IsSome(file.body) /\ IsSome(Get(file.body).transUnits)
UnitsOf(file) == IF HasUnits(file) THEN Get(Get(file.body).transUnits) ELSE <<>>

\* The file nodes that have trans-unit elements, in document order.
RECURSIVE FilesWithUnits(_)
FilesWithUnits(fileNodes) ==
    IF fileNodes = <<>> THEN <<>>
    ELSE (IF HasUnits(Head(fileNodes)) THEN <<Head(fileNodes)>> ELSE <<>>)
            \o FilesWithUnits(Tail(fileNodes))

HasTarget(unit) == unit.target # Undefined
HasId(unit) == IsSome(unit.attrs) /\ Truthy(Get(unit.attrs).id)
IdOf(unit) == Get(Get(unit.attrs).id)
\* The text of an element of the tree, empty when it has none.
TextOf(node) ==
    IF node = Undefined THEN <<>>
    ELSE IF node.elems[1].t = "string" THEN node.elems[1].v
    ELSE IF IsSome(node.elems[1].text) THEN Get(node.elems[1].text)
    ELSE <<>>

\* A unit with id and target text; a unit with attributes and no target.
Translated(unit) == HasId(unit) /\ HasTarget(unit) /\ TextOf(unit.target) # <<>>
Untranslated(unit) == IsSome(unit.attrs) /\ ~HasTarget(unit)

Settled == pc = "settled"
Resolved == Settled /\ Get(out).state = "resolved"
Rejected == Settled /\ Get(out).state = "rejected"

\* Every file node has its attributes and its body.
WellFormedFiles ==
    /\ DocFiles(arg.doc) # <<>>
    /\ \A n \in 1..Len(DocFiles(arg.doc)) :
          LET file == DocFiles(arg.doc)[n]
          IN HasOriginal(file) /\ HasLanguage(file) /\ IsSome(file.body)

\* C7 as stated: without forceLanguage, a unit with an id and no target has
\* its source text as message in the map of its file.
SourceAlwaysUsed ==
    (Resolved /\ ~arg.forceLanguage) =>
        \A n \in 1..Len(FilesWithUnits(DocFiles(arg.doc))) :
           LET units == UnitsOf(FilesWithUnits(DocFiles(arg.doc))[n])
               messages == Get(Get(out).value)[n].messages
           IN \A u \in 1..Len(units) :
                 (HasId(units[u]) /\ ~HasTarget(units[u])
                     /\ \A v \in 1..Len(units) : HasId(units[v]) /\ IdOf(units[v]) = IdOf(units[u])
                                                    => v = u)
                    => MessageOf(messages, IdOf(units[u]))
                          = Some(decodeEntities(TextOf(units[u].source)))

\* C7: a unit with an id attribute and no target element.  A document of
\* well-formed files whose units are all either translated or such units
\* resolves (without forceLanguage the unit must have a source element).  With
\* forceLanguage the unit is skipped: it puts nothing in the message map.
\* Without forceLanguage its source text, entities decoded, is the message
\* under its id when the source text is not empty; a unit whose source text is
\* empty is dropped.  (The id is that of no other unit of the file.)
TargetlessUnits ==
    /\ (Settled /\ DocFiles(arg.doc) # <<>>
          /\ \A n \in 1..Len(DocFiles(arg.doc)) :
                LET file == DocFiles(arg.doc)[n]
                IN /\ HasOriginal(file) /\ IsSome(file.body)
                   /\ arg.forceLanguage => HasLanguage(file)
                   /\ \A u \in 1..Len(UnitsOf(file)) :
                         \/ Translated(UnitsOf(file)[u])
                         \/ /\ HasId(UnitsOf(file)[u]) /\ ~HasTarget(UnitsOf(file)[u])
                            /\ arg.forceLanguage \/ UnitsOf(file)[u].source # Undefined)
         => Resolved
    /\ Resolved =>
        \A n \in 1..Len(FilesWithUnits(DocFiles(arg.doc))) :
           LET units == UnitsOf(FilesWithUnits(DocFiles(arg.doc))[n])
               messages == Get(Get(out).value)[n].messages
           IN \A u \in 1..Len(units) :
                 (HasId(units[u]) /\ ~HasTarget(units[u])
                     /\ \A v \in 1..Len(units) : HasId(units[v]) /\ IdOf(units[v]) = IdOf(units[u])
                                                    => v = u)
                    => MessageOf(messages, IdOf(units[u])) =
                          IF arg.forceLanguage \/ TextOf(units[u].source) = <<>>
                          THEN None
                          ELSE Some(decodeEntities(TextOf(units[u].source)))

\* C7 witness: without forceLanguage a file of a translated unit and a unit
\* without target resolved with both ids in the map, the second from its source.
SourceUsed ==
    /\ Resolved /\ ~arg.forceLanguage
    /\ Len(DocFiles(arg.doc)) = 1
    /\ UnitsOf(DocFiles(arg.doc)[1]) = <<TranslatedUnit, UntranslatedUnit>>
    /\ Get(Get(out).value)[1].messages
          = <<[key |-> KeyK, value |-> <<"t">>], [key |-> KeyJ, value |-> <<"s">>]>>

\* C8: a document without xliff or file node, a file node without original
\* attribute, or with forceLanguage a file node without target-language
\* attribute: the promise is rejected and delivers no list of files.
StructuralFailure ==
    \/ DocFiles(arg.doc) = <<>>
    \/ \E n \in 1..Len(DocFiles(arg.doc)) : ~HasOriginal(DocFiles(arg.doc)[n])
    \/ arg.forceLanguage /\ \E n \in 1..Len(DocFiles(arg.doc)) : ~HasLanguage(DocFiles(arg.doc)[n])

StructureRejected ==
    (Settled /\ StructuralFailure) =>
        (Get(out).state = "rejected" /\ Get(out).value = None /\ IsSome(Get(out).reason))

\* C8 witness: a good file followed by a file without original attribute, all
\* units translated: rejected for the missing original.
MissingOriginalRejected ==
    /\ Rejected
    /\ Len(DocFiles(arg.doc)) = 2
    /\ DocFiles(arg.doc)[1] = [attrs |-> PlainAttrs, body |-> BodyOf(<<TranslatedUnit>>)]
    /\ IsSome(DocFiles(arg.doc)[2].attrs)
    /\ Get(DocFiles(arg.doc)[2].attrs).original = None
    /\ UnitsOf(DocFiles(arg.doc)[2]) = <<TranslatedUnit>>
    /\ Get(out).reason = Some(NoOriginal)

\* A unit with a target element, without id and without target text.
LacksIdAndValue(unit) == HasTarget(unit) /\ ~HasId(unit) /\ TextOf(unit.target) = <<>>

\* C9: with forceLanguage, in a document that has no other defect (well-formed
\* files, every other unit translated or without target), a unit with a target
\* element that lacks both id and value makes the parse fail with the error
\* 'does not contain full localization data'.
FullDataError ==
    (/\ Settled /\ arg.forceLanguage /\ WellFormedFiles
     /\ \A n \in 1..Len(DocFiles(arg.doc)) :
           \A u \in 1..Len(UnitsOf(DocFiles(arg.doc)[n])) :
              LET unit == UnitsOf(DocFiles(arg.doc)[n])[u]
              IN Translated(unit) \/ Untranslated(unit) \/ LacksIdAndValue(unit)
     /\ \E n \in 1..Len(DocFiles(arg.doc)) :
           \E u \in 1..Len(UnitsOf(DocFiles(arg.doc)[n])) :
              LacksIdAndValue(UnitsOf(DocFiles(arg.doc)[n])[u]))
        => (Get(out).state = "rejected" /\ Get(out).reason = Some(NoFullData))

\* C10 as stated: a resolved parse has one entry per file node, in order.
EntryPerFile ==
    Resolved =>
        /\ Len(Get(Get(out).value)) = Len(DocFiles(arg.doc))
        /\ \A n \in 1..Len(DocFiles(arg.doc)) :
              Get(Get(out).value)[n].originalFilePath = Get(DocFiles(arg.doc)[n].attrs).original

\* C10: a resolved parse has one entry per file node that has trans-unit
\* elements, in document order, with the original and the lower-cased target
\* language of the node; a node whose units are all skipped has an entry with
\* an empty message map, a node without trans-unit has no entry.
EntryPerFileWithUnits ==
    Resolved =>
        LET nodes == FilesWithUnits(DocFiles(arg.doc))
            entries == Get(Get(out).value)
        IN /\ Len(entries) = Len(nodes)
           /\ \A n \in 1..Len(nodes) :
                 /\ entries[n].originalFilePath = Get(nodes[n].attrs).original
                 /\ entries[n].language =
                       (IF IsSome(Get(nodes[n].attrs).targetLanguage)
                        THEN Some(<<"d", "e">>) ELSE None)
                 /\ (arg.forceLanguage
                       /\ \A u \in 1..Len(UnitsOf(nodes[n])) : ~HasTarget(UnitsOf(nodes[n])[u]))
                      => entries[n].messages = <<>>

\* C10 witness: with forceLanguage, a file without trans-unit and a file of two
\* units without target: one entry, that of the second file, its map empty.
EmptyEntrySeen ==
    /\ Resolved /\ arg.forceLanguage
    /\ Len(DocFiles(arg.doc)) = 2
    /\ ~HasUnits(DocFiles(arg.doc)[1])
    /\ Len(UnitsOf(DocFiles(arg.doc)[2])) = 2
    /\ Len(Get(Get(out).value)) = 1
    /\ Get(Get(out).value)[1].originalFilePath = Some(ModuleA)
    /\ Get(Get(out).value)[1].messages = <<>>


\* ------------------------------------------------------------------------
\* Scenario: toString called on a built document, once and again
\* ------------------------------------------------------------------------
MaxCalls == 2

\* Documents of one or two groups: keys with and without a comment, and the
\* targets a language bundle sets on one group.
SerializableDocuments ==
    {setLanguageBundle(addFile(addFile(<<>>, Package, k1, m1).files, ModuleA, k2, m2).files,
                       o, Some(t)).files :
        k1 \in BoundedSeq(RoundTripKeys, MaxKeys), k2 \in BoundedSeq(RoundTripKeys, 1),
        m1 \in BoundedSeq({StringMessage(<<"a">>)}, MaxKeys),
        m2 \in BoundedSeq({StringMessage(<<"<">>)}, 1),
        o \in SpecOriginals, t \in BoundedSeq({<<"t">>}, MaxKeys)}

InitToString ==
    /\ files \in SerializableDocuments
    /\ buffer = <<>>
    /\ target \in {None, Some(<<"de">>)}
    /\ last = Idle
    /\ pc = "xlf" /\ arg = 0 /\ out = None

CallToString ==
    /\ pc = "xlf" /\ Running /\ arg < MaxCalls
    /\ LET r == toString(buffer, files, target)
       IN /\ buffer' = r.buffer
          /\ out' = r.text
          /\ last' = Call("toString", <<>>, <<>>, <<>>, None, r.error)
    /\ arg' = arg + 1
    /\ UNCHANGED <<files, target, pc>>

NextToString == CallToString

SpecToString == InitToString /\ [][NextToString]_vars

\* The positions of a symbol in a text, and the n-th of them.
Occurrences(text, sym) == {p \in 1..Len(text) : text[p] = sym}

NthOccurrence(text, sym, n) ==
    CHOOSE p \in Occurrences(text, sym) :
        Cardinality({q \in Occurrences(text, sym) : q < p}) = n - 1

\* The items of all groups of a document that satisfy a test.
ItemsWhere(fs, Test(_)) ==
    {<<g, i>> \in (1..Len(fs)) \X (1..MaxKeys) : i <= Len(fs[g].items) /\ Test(fs[g].items[i])}

\* C11: the text a toString call returns holds one file element per file group,
\* in the order of the groups, each with source-language "en" and with the
\* target-language attribute exactly when a target language id was given; one
\* trans-unit and one source per item, one note per item with a comment and one
\* target per item with a target.
OneFileElementPerGroup ==
    (last.op = "toString" /\ IsSome(out)) =>
        LET text == Get(out)
        IN /\ Cardinality(Occurrences(text, FileOpenA)) = Len(files)
           /\ \A g \in 1..Len(files) :
                 MatchAt(text, fileLine(files[g].original, target),
                         NthOccurrence(text, FileOpenA, g))
           /\ Cardinality(Occurrences(text, FileOpenB)) = Len(files)
           /\ Cardinality(Occurrences(text, TargetLangA))
                 = IF IsSome(target) THEN Len(files) ELSE 0
           /\ Cardinality(Occurrences(text, UnitOpenA))
                 = Cardinality(ItemsWhere(files, LAMBDA item : TRUE))
           /\ Cardinality(Occurrences(text, SourceOpen))
                 = Cardinality(ItemsWhere(files, LAMBDA item : TRUE))
           /\ Cardinality(Occurrences(text, NoteOpen))
                 = Cardinality(ItemsWhere(files, LAMBDA item : IsSome(item.comment)))
           /\ Cardinality(Occurrences(text, TargetOpen))
                 = Cardinality(ItemsWhere(files, LAMBDA item : IsSome(item.target)))


\* ------------------------------------------------------------------------
\* createXlfFiles: a through stream, its write handler and its end handler
\* ------------------------------------------------------------------------
\* What a stage sends downstream, in order: queue(file), emit('error'),
\* queue(null).
Event(event, path, contents) == [event |-> event, path |-> path, contents |-> contents]

\* path.join of two relative paths without '.' and '..' segments.
pathJoin(a, b) ==
    IF a = <<>> THEN (IF b = <<>> THEN <<".">> ELSE b)
    ELSE IF b = <<>> THEN a
    ELSE a \o <<"/">> \o b

\* The closure of one createXlfFiles call before any file is written.
xlfStage ==
    [xlf |-> FALSE, files |-> <<>>, buffer |-> <<>>,
     header |-> None, data |-> None, packageBundle |-> None, bundle |-> None,
     out |-> <<>>, error |-> None]

\* The write handler.  A file is its base name, isBuffer() and its JSON value.
xlfWrite(st, language, file) ==
    LET languageId == IF IsSome(language) THEN Get(language).id ELSE None
    IN IF ~file.isBuffer
       THEN [st EXCEPT !.out = Append(@, Event("error", file.basename, <<>>))]
       ELSE IF file.basename = <<"package.nls", ".json">>
       THEN LET json == file.contents
                keys == [i \in 1..Len(json) |-> StringKey(json[i].key)]
                messages == [i \in 1..Len(json) |-> json[i].value]
            IN [st EXCEPT !.xlf = TRUE,
                          !.files = addFile(st.files, Package, keys, messages).files]
       ELSE IF Truthy(languageId)
               /\ file.basename = <<"package.nls", ".">> \o Get(languageId) \o <<".json">>
       THEN [st EXCEPT !.packageBundle = Some(file.contents)]
       ELSE IF file.basename = <<"nls.metadata", ".json">>
       THEN [st EXCEPT !.data = Some(file.contents)]
       ELSE IF Truthy(languageId)
               /\ file.basename = <<"nls.bundle", ".">> \o Get(languageId) \o <<".json">>
       THEN [st EXCEPT !.bundle = Some(file.contents)]
       ELSE IF file.basename = <<"nls.metadata.header", ".json">>
       THEN [st EXCEPT !.header = Some(file.contents)]
       ELSE [st EXCEPT !.out = Append(@, Event("error", file.basename, <<>>))]

\* The module loop without the overlay of the language bundle.
RECURSIVE addModulesOnly(_, _, _, _, _, _)
addModulesOnly(fs, outDir, data, n, language, bundle) ==
    IF n > Len(data) THEN [files |-> fs, error |-> None]
    ELSE With(addFile(fs, pathJoin(outDir, ReplaceAll(data[n].key, <<"\\">>, <<"/">>)),
                      data[n].value.keys, data[n].value.messages),
              LAMBDA added :
                 IF IsSome(added.error) THEN added
                 ELSE addModulesOnly(added.files, outDir, data, n + 1, language, bundle))

\* for (const module in data) { addFile; if (language) setLanguageBundle }
RECURSIVE addModules(_, _, _, _, _, _)
addModules(fs, outDir, data, n, language, bundle) ==
    IF n > Len(data) THEN [files |-> fs, error |-> None]
    ELSE LET fileName == ReplaceAll(data[n].key, <<"\\">>, <<"/">>)
             filePath == pathJoin(outDir, fileName)
         IN With(addFile(fs, filePath, data[n].value.keys, data[n].value.messages),
                 LAMBDA added :
                    IF IsSome(added.error) THEN added
                    ELSE With(IF IsSome(language)
                              THEN setLanguageBundle(added.files, filePath,
                                       IF IsSome(bundle) THEN MessageOf(Get(bundle), fileName)
                                       ELSE None)
                              ELSE added,
                              LAMBDA overlaid :
                                 IF IsSome(overlaid.error) THEN overlaid
                                 ELSE addModules(overlaid.files, outDir, data, n + 1,
                                                 language, bundle)))

\* The end handler.  An exception leaves it at once: nothing more is queued.
xlfEnd(st, projectName, extensionName, language) ==
    LET languageId == IF IsSome(language) THEN Get(language).id ELSE None
        xlf == st.xlf \/ IsSome(language) \/ (IsSome(st.header) /\ IsSome(st.data)
                                                /\ Len(Get(st.data)) > 0)
        path == pathJoin(projectName,
                    extensionName
                    \o (IF Truthy(languageId) THEN <<".">> \o Get(languageId) ELSE <<>>)
                    \o <<".xlf">>)
    IN With(IF IsSome(language)
            THEN setLanguagePackage(st.files, Package, st.packageBundle)
            ELSE [files |-> st.files, error |-> None],
            LAMBDA package :
       IF IsSome(package.error)
       THEN [st EXCEPT !.xlf = TRUE, !.files = package.files, !.error = package.error]
       ELSE With(IF IsSome(st.header) /\ IsSome(st.data)
                 THEN addModules(package.files, Get(st.header).outDir, Get(st.data), 1,
                                 language, st.bundle)
                 ELSE package,
                 LAMBDA modules :
       IF IsSome(modules.error)
       THEN [st EXCEPT !.xlf = TRUE, !.files = modules.files, !.error = modules.error]
       ELSE IF ~xlf
       THEN [st EXCEPT !.out = Append(@, Event("end", <<>>, <<>>))]
       ELSE With(toString(st.buffer, modules.files, languageId),
                 LAMBDA text :
       IF IsSome(text.error)
       THEN [st EXCEPT !.xlf = TRUE, !.files = modules.files, !.buffer = text.buffer,
                       !.error = text.error]
       ELSE [st EXCEPT !.xlf = TRUE, !.files = modules.files, !.buffer = text.buffer,
                       !.out = @ \o <<Event("data", path, Get(text.text)),
                                      Event("end", <<>>, <<>>)>>])))


\* ------------------------------------------------------------------------
\* Scenario: one createXlfFiles stream fed a set of files in any order
\* ------------------------------------------------------------------------
German == [id |-> Some(<<"de">>)]
ModuleB == <<"b">>

\* The files a run may be fed, by kind; each kind at most once.
XlfInputs ==
    [package : {None} \cup {Some([basename |-> <<"package.nls", ".json">>, isBuffer |-> TRUE,
                                  contents |-> c]) :
                    c \in {<<>>,
                           <<[key |-> KeyK, value |-> StringMessage(<<"a">>)]>>,
                           <<[key |-> KeyK, value |-> StringMessage(<<"a">>)],
                             [key |-> KeyJ, value |-> StringMessage(<<"<">>)]>>}},
     packageBundle : {None} \cup {Some([basename |-> <<"package.nls", ".", "de", ".json">>,
                                        isBuffer |-> TRUE, contents |-> c]) :
                    c \in {<<[key |-> KeyK, value |-> <<"t">>]>>,
                           <<[key |-> KeyJ, value |-> <<"'">>],
                             [key |-> KeyK, value |-> <<"t">>]>>}},
     data : {None} \cup {Some([basename |-> <<"nls.metadata", ".json">>, isBuffer |-> TRUE,
                               contents |-> c]) :
                    c \in {<<[key |-> <<"a">>,
                              value |-> [keys |-> <<StringKey(KeyK)>>,
                                         messages |-> <<StringMessage(<<"a">>)>>]]>>,
                           <<[key |-> <<"a">>,
                              value |-> [keys |-> <<StringKey(KeyK)>>,
                                         messages |-> <<StringMessage(<<"a">>)>>]],
                             [key |-> ModuleB,
                              value |-> [keys |-> <<StringKey(KeyK), CommentedKey(KeyJ, <<<<"c">>>>)>>,
                                         messages |-> <<StringMessage(<<"a">>), StringMessage(<<"<">>)>>]]>>,
                           <<[key |-> <<"a">>,
                              value |-> [keys |-> <<StringKey(KeyK)>>,
                                         messages |-> <<StringMessage(<<"a">>)>>]],
                             [key |-> ModuleB,
                              value |-> [keys |-> <<>>, messages |-> <<>>]]>>}},
     bundle : {None} \cup {Some([basename |-> <<"nls.bundle", ".", "de", ".json">>,
                                 isBuffer |-> TRUE, contents |-> c]) :
                    c \in {<<[key |-> <<"a">>, value |-> <<<<"t">>>>]>>,
                           <<[key |-> <<"a">>, value |-> <<<<"t">>>>],
                             [key |-> ModuleB, value |-> <<<<"'">>, <<"t">>>>]>>}},
     header : {None, Some([basename |-> <<"nls.metadata.header", ".json">>, isBuffer |-> TRUE,
                           contents |-> [outDir |-> <<"out">>]])},
     other : {None, Some([basename |-> <<"readme.md">>, isBuffer |-> TRUE,
                          contents |-> <<>>])}]

Kinds == {"package", "packageBundle", "data", "bundle", "header", "other"}

InitXlfFiles ==
    /\ \E language \in {None, Some(German)}, inputs \in XlfInputs :
          arg = [stage |-> "createXlfFiles", language |-> language, inputs |-> inputs,
                 pending |-> {k \in Kinds : IsSome(inputs[k])},
                 first |-> "", st |-> xlfStage]
    /\ files = <<>> /\ buffer = <<>>
    /\ target = IF IsSome(arg.language) THEN Get(arg.language).id ELSE None
    /\ last = Idle
    /\ pc = "streaming" /\ out = <<>>

\* The upstream writes one of the files not yet written.
XlfWrite ==
    /\ arg.stage = "createXlfFiles" /\ pc = "streaming"
    /\ \E kind \in arg.pending :
          \E file \in {Get(arg.inputs[kind])} :
          \E st \in {xlfWrite(arg.st, arg.language, file)} :
             /\ arg' = [arg EXCEPT !.pending = @ \ {kind}, !.st = st,
                                   !.first = IF @ = "" THEN kind ELSE @]
             /\ files' = st.files /\ buffer' = st.buffer /\ out' = st.out
             /\ last' = Call("write", file.basename, <<>>, <<>>, None, None)
    /\ UNCHANGED <<target, pc>>

\* The upstream ends the stream after the last file.
XlfEnd ==
    /\ arg.stage = "createXlfFiles" /\ pc = "streaming" /\ arg.pending = {}
    /\ \E st \in {xlfEnd(arg.st, <<"p">>, <<"e">>, arg.language)} :
          /\ arg' = [arg EXCEPT !.st = st]
          /\ files' = st.files /\ buffer' = st.buffer /\ out' = st.out
          /\ last' = Call("end", <<>>, <<>>, <<>>, None, st.error)
          /\ pc' = IF IsSome(st.error) THEN "thrown" ELSE "ended"
    /\ UNCHANGED target

NextXlfFiles == XlfWrite \/ XlfEnd

SpecXlfFiles == InitXlfFiles /\ [][NextXlfFiles]_vars

\* The files of a run written in one fixed order, then the end of the stream.
RECURSIVE WrittenInOrder(_, _, _, _)
WrittenInOrder(st, language, inputs, order) ==
    IF Len(order) = 0 THEN st
    ELSE With(IF IsSome(inputs[Head(order)])
              THEN xlfWrite(st, language, Get(inputs[Head(order)]))
              ELSE st,
              LAMBDA written : WrittenInOrder(written, language, inputs, Tail(order)))

\* The events of a kind a stage has sent downstream.
Sent(events, event) == {n \in 1..Len(events) : events[n].event = event}

\* The modules of the metadata file a run was fed, all or those with keys.
DataModules == IF IsSome(arg.inputs.data) THEN Get(arg.inputs.data).contents ELSE <<>>

ModulesWithKeys == SelectSeq(DataModules, LAMBDA m : Len(m.value.keys) > 0)

\* A document was sent downstream, and the groups it was written from.
DocumentSent == pc = "ended" /\ Sent(out, "data") # {}

ModuleGroups == SelectSeq(files, LAMBDA f : f.original # Package)

\* C12 as stated: whatever the order of arrival, the emitted document has the
\* 'package' group first, followed by one group per module of the metadata.
GroupPerModule ==
    (DocumentSent /\ IsSome(arg.inputs.header)) =>
        /\ \A g \in 2..Len(files) : files[g].original # Package
        /\ Len(ModuleGroups) = Len(DataModules)

\* C12: a run ends as the run that is written the same files in the order
\* package.nls.json, bundles, metadata, header, others ends: the same file
\* groups, the same document downstream, the same exception; in an emitted document
\* the 'package' group is first, followed by one group per module of the
\* metadata that has at least one key, in the order of the metadata.
ArrivalOrderIrrelevant ==
    /\ pc # "streaming" =>
          \E inOrder \in {xlfEnd(WrittenInOrder(xlfStage, arg.language, arg.inputs,
                                    <<"package", "packageBundle", "bundle", "data", "header", "other">>),
                                  <<"p">>, <<"e">>, arg.language)} :
             /\ files = inOrder.files
             /\ last.error = inOrder.error
             /\ SelectSeq(out, LAMBDA e : e.event # "error")
                   = SelectSeq(inOrder.out, LAMBDA e : e.event # "error")
    /\ (DocumentSent /\ IsSome(arg.inputs.header)) =>
          /\ \A g \in 2..Len(files) : files[g].original # Package
          /\ Len(ModuleGroups) = Len(ModulesWithKeys)
          /\ \A g \in 1..Len(ModuleGroups) :
                ModuleGroups[g].original = pathJoin(<<"out">>, ModulesWithKeys[g].key)

\* C12 witness: the metadata arrived before package.nls.json, and the document
\* still opens with the 'package' group, the groups of two modules after it.
PackageArrivedLate ==
    /\ DocumentSent
    /\ arg.first = "data"
    /\ Len(files) = 3 /\ files[1].original = Package
    /\ Len(ModuleGroups) = 2

\* The kinds of files the write handler of a run recognizes by name.
Recognized ==
    {"package", "data", "header"}
        \cup (IF Truthy(target) THEN {"packageBundle", "bundle"} ELSE {})

\* The end handler has run, to its end or to an exception.
EndHandled == pc \in {"ended", "thrown"}

\* C13: when the end handler has run, a run that added a file group and met no
\* fatal error has sent exactly one file and then end-of-stream; a run that was
\* fed no file createXlfFiles recognizes has sent no file and has signalled
\* end-of-stream, with and without a target language.
OneDocumentOrNone ==
    /\ (pc = "ended" /\ Len(files) > 0) =>
          /\ Cardinality(Sent(out, "data")) = 1
          /\ out[Len(out)].event = "end"
          /\ Cardinality(Sent(out, "end")) = 1
    /\ (EndHandled /\ \A k \in Recognized : ~IsSome(arg.inputs[k])) =>
          /\ Sent(out, "data") = {}
          /\ Sent(out, "end") = {Len(out)}

\* C14: a document sent downstream by a run with a target language was
\* written from groups whose every item has a target: in the 'package' group
\* the escaped text package.nls.<lang>.json holds under the id of the item, in
\* a module group the escaped text at the index of the item in the entry of
\* that module in nls.bundle.<lang>.json; the document has one target element
\* per item.
TranslationsOverlaid ==
    (DocumentSent /\ IsSome(arg.language)) =>
        /\ \A g \in 1..Len(files) : \A i \in 1..Len(files[g].items) :
              LET item == files[g].items[i]
                  TextsOf(bundle, key) ==
                      IF IsSome(bundle) THEN MessageOf(Get(bundle).contents, key) ELSE None
              IN IF files[g].original = Package
                 THEN LET text == TextsOf(arg.inputs.packageBundle, item.id)
                      IN IsSome(text) /\ item.target = Some(encodeEntities(Get(text)))
                 ELSE \E m \in 1..Len(DataModules) :
                        LET texts == TextsOf(arg.inputs.bundle, DataModules[m].key)
                        IN /\ files[g].original = pathJoin(<<"out">>, DataModules[m].key)
                           /\ IsSome(texts) /\ i <= Len(Get(texts))
                           /\ item.target = Some(encodeEntities(Get(texts)[i]))
        /\ LET text == out[CHOOSE n \in Sent(out, "data") : TRUE].contents
           IN Cardinality(Occurrences(text, TargetOpen))
                 = Cardinality(ItemsWhere(files, LAMBDA item : TRUE))

\* C14 witness: a translated document of three groups; the two items of the
\* second module have the two texts of its bundle entry, in their order.
ModuleTargetsByIndex ==
    /\ DocumentSent /\ IsSome(arg.language)
    /\ Len(files) = 3
    /\ files[3].original = pathJoin(<<"out">>, ModuleB)
    /\ files[3].items[1].target = Some(APOS)
    /\ files[3].items[2].target = Some(<<"t">>)
    /\ Len(files[1].items) = 2

\* C15 (createXlfFiles): a file whose name the stage does not recognize has
\* been queued downstream as it came, once it was written, and no error event
\* names it.
UnrecognizedPassedThrough ==
    \A k \in (Kinds \ Recognized) \ arg.pending :
        IsSome(arg.inputs[k]) =>
            LET file == Get(arg.inputs[k])
            IN /\ \E n \in Sent(out, "data") :
                     out[n].path = file.basename /\ out[n].contents = file.contents
               /\ \A n \in Sent(out, "error") : out[n].path # file.basename


\* ------------------------------------------------------------------------
\* The through streams that rewrite, bundle and localize files
\* ------------------------------------------------------------------------
\* A file name is a sequence of tokens, every '.' a token of its own.  A file
\* is [relative, base, isBuffer, contents, lib]; lib holds what the functions
\* of ./lib return for it: errors and bundle (processFile), valid
\* (JavaScriptMessageBundle.is), balanced (as many messages as keys),
\* localized (the folder names createLocalizedMessages has messages for).
NLS_JSON == <<".", "nls", ".", "json">>
NLS_METADATA_JSON == <<".", "nls", ".", "metadata", ".", "json">>
I18N_JSON == <<".", "i18n", ".", "json">>

\* this.queue(file) and this.emit('error', ...) on the state of a stage.
queue(st, path, contents) == [st EXCEPT !.out = Append(@, Event("data", path, contents))]
emitError(st, path) == [st EXCEPT !.out = Append(@, Event("error", path, <<>>))]

\* suffix === name.substr(name.length - suffix.length), and name without it
EndsWith(name, suffix) ==
    /\ Len(name) >= Len(suffix)
    /\ SubSeq(name, Len(name) - Len(suffix) + 1, Len(name)) = suffix

DropSuffix(name, suffix) == SubSeq(name, 1, Len(name) - Len(suffix))

\* name.substr(0, name.length - path.extname(name).length)
dropExtname(name) ==
    IF Len(name) >= 3 /\ name[Len(name) - 1] = "." THEN SubSeq(name, 1, Len(name) - 2)
    ELSE name

\* A write handler that queues the input file after the files made from it.
processFilesInputLast(st, file, rewrite) ==
    IF ~file.isBuffer THEN emitError(st, file.relative)
    ELSE IF file.lib.errors THEN emitError(st, pathJoin(file.base, file.relative))
    ELSE LET filePath == dropExtname(pathJoin(file.base, file.relative))
             s1 == IF file.lib.bundle
                   THEN queue(queue(st, filePath \o NLS_JSON, <<"messages">> \o file.contents),
                              filePath \o NLS_METADATA_JSON, <<"bundle">> \o file.contents)
                   ELSE st
         IN queue(s1, pathJoin(file.base, file.relative),
                  IF rewrite /\ file.lib.bundle
                  THEN <<"rewritten">> \o file.contents ELSE file.contents)

\* rewriteLocalizeCalls (rewrite = TRUE) and createMetaDataFiles (FALSE)
processFiles(st, file, rewrite) ==
    IF ~file.isBuffer THEN emitError(st, file.relative)
    ELSE IF file.lib.errors THEN emitError(st, pathJoin(file.base, file.relative))
    ELSE LET filePath == dropExtname(pathJoin(file.base, file.relative))
             s1 == queue(st, pathJoin(file.base, file.relative),
                         IF rewrite /\ file.lib.bundle
                         THEN <<"rewritten">> \o file.contents ELSE file.contents)
         IN IF file.lib.bundle
            THEN queue(queue(s1, filePath \o NLS_JSON, <<"messages">> \o file.contents),
                       filePath \o NLS_METADATA_JSON, <<"bundle">> \o file.contents)
            ELSE s1

\* bundleMetaDataFiles: acc is [base, added], the files given to bundler.add
bundleMetaDataFiles(st, file) ==
    IF ~EndsWith(file.relative, NLS_METADATA_JSON)
    THEN queue(st, pathJoin(file.base, file.relative), file.contents)
    ELSE IF ~file.isBuffer THEN emitError(st, file.relative)
    ELSE [st EXCEPT !.acc = [base |-> IF Truthy(@.base) THEN @.base ELSE Some(file.base),
                             added |-> Append(@.added, file.contents)]]

\* An end handler that queues the content before the header.
bundleMetaDataFilesEndSwapped(st) ==
    LET s1 == IF Truthy(st.acc.base)
              THEN queue(queue(st, pathJoin(Get(st.acc.base), <<"nls", ".", "metadata", ".", "json">>),
                               Join(st.acc.added, <<",">>)),
                         pathJoin(Get(st.acc.base),
                                  <<"nls", ".", "metadata", ".", "header", ".", "json">>),
                         <<"header">>)
              ELSE st
    IN [s1 EXCEPT !.out = Append(@, Event("end", <<>>, <<>>))]

bundleMetaDataFilesEnd(st) ==
    LET s1 == IF Truthy(st.acc.base)
              THEN queue(queue(st, pathJoin(Get(st.acc.base),
                                       <<"nls", ".", "metadata", ".", "header", ".", "json">>),
                               <<"header">>),
                         pathJoin(Get(st.acc.base), <<"nls", ".", "metadata", ".", "json">>),
                         Join(st.acc.added, <<",">>))
              ELSE st
    IN [s1 EXCEPT !.out = Append(@, Event("end", <<>>, <<>>))]

\* basename.match(/.nls\.(?:(.*)\.)?json/): no match, or the language group
\* (absent when 'json' follows '.nls.' at once and no later '.json' does).
nlsMatch(name) ==
    LET starts == {i \in 2..Len(name) :
                      /\ name[i] = "nls" /\ i + 2 <= Len(name) /\ name[i + 1] = "."
                      /\ \/ name[i + 2] = "json"
                         \/ \E j \in (i + 2)..(Len(name) - 1) :
                               name[j] = "." /\ name[j + 1] = "json"}
        i == CHOOSE i \in starts : \A k \in starts : i <= k
        dots == {j \in (i + 2)..(Len(name) - 1) : name[j] = "." /\ name[j + 1] = "json"}
        j == CHOOSE j \in dots : \A k \in dots : k <= j
    IN IF starts = {} THEN [matched |-> FALSE, language |-> None]
       ELSE IF dots = {} THEN [matched |-> TRUE, language |-> None]
       ELSE [matched |-> TRUE, language |-> Some(Join([k \in 1..(j - i - 2) |-> <<name[i + 1 + k]>>], <<>>))]

\* relativeFile.match(/(.*)\.nls\.(?:.*\.)?json/)![1].replace(/\\/g, '/')
getModuleKey(relative) ==
    LET starts == {i \in 1..(Len(relative) - 3) :
                      /\ relative[i] = "." /\ relative[i + 1] = "nls" /\ relative[i + 2] = "."
                      /\ \/ relative[i + 3] = "json"
                         \/ \E j \in (i + 3)..(Len(relative) - 1) :
                               relative[j] = "." /\ relative[j + 1] = "json"}
        i == CHOOSE i \in starts : \A k \in starts : k <= i
    IN IF starts = {} THEN None
       ELSE Some(ReplaceAll(SubSeq(relative, 1, i - 1), <<"\\">>, <<"/">>))

\* A write handler that keeps the fragment a module key was first stored with.
bundleLanguageFilesFirst(st, file) ==
    LET matches == nlsMatch(file.relative)
        language == IF Truthy(matches.language) THEN Get(matches.language) ELSE <<"en">>
        key == getModuleKey(file.relative)
        entry == [key |-> Get(key), value |-> file.contents]
        known == \E b \in 1..Len(st.acc) : st.acc[b].language = language
        bundles == IF known THEN st.acc
                   ELSE Append(st.acc, [language |-> language, base |-> file.base,
                                        content |-> <<>>])
        b == CHOOSE b \in 1..Len(bundles) : bundles[b].language = language
    IN IF ~matches.matched \/ ~file.isBuffer
       THEN queue(st, pathJoin(file.base, file.relative), file.contents)
       ELSE [st EXCEPT !.acc = [bundles EXCEPT ![b].content =
                IF \E m \in 1..Len(@) : @[m].key = entry.key THEN @
                ELSE Append(@, entry)]]

\* A write handler that files every fragment under the default language.
bundleLanguageFilesDefault(st, file) ==
    LET key == getModuleKey(file.relative)
        entry == [key |-> Get(key), value |-> file.contents]
        bundles == IF Len(st.acc) > 0 THEN st.acc
                   ELSE <<[language |-> <<"en">>, base |-> file.base, content |-> <<>>]>>
    IN IF ~nlsMatch(file.relative).matched \/ ~file.isBuffer
       THEN queue(st, pathJoin(file.base, file.relative), file.contents)
       ELSE [st EXCEPT !.acc = [bundles EXCEPT ![1].content = Append(@, entry)]]

\* bundleLanguageFiles: acc is bundles, one [language, base, content] per
\* language in the order the languages were first seen.
bundleLanguageFiles(st, file) ==
    LET matches == nlsMatch(file.relative)
        language == IF Truthy(matches.language) THEN Get(matches.language) ELSE <<"en">>
        key == getModuleKey(file.relative)
        entry == [key |-> Get(key), value |-> file.contents]
        known == \E b \in 1..Len(st.acc) : st.acc[b].language = language
        bundles == IF known THEN st.acc
                   ELSE Append(st.acc, [language |-> language, base |-> file.base,
                                        content |-> <<>>])
        b == CHOOSE b \in 1..Len(bundles) : bundles[b].language = language
    IN IF ~matches.matched \/ ~file.isBuffer
       THEN queue(st, pathJoin(file.base, file.relative), file.contents)
       ELSE IF ~IsSome(key)
       THEN [st EXCEPT !.acc = bundles, !.error = Some(TypeError)]
       ELSE [st EXCEPT !.acc = [bundles EXCEPT ![b].content =
                IF \E m \in 1..Len(@) : @[m].key = entry.key
                THEN [@ EXCEPT ![CHOOSE m \in 1..Len(@) : @[m].key = entry.key] = entry]
                ELSE Append(@, entry)]]

\* The end of bundleLanguageFiles without its bundles.
queueNoBundles(st, n) == st

RECURSIVE queueBundles(_, _)
queueBundles(st, n) ==
    IF n > Len(st.acc) THEN st
    ELSE LET bundle == st.acc[n]
             languageId == IF bundle.language = <<"en">> THEN <<>>
                           ELSE bundle.language \o <<".">>
         IN queueBundles(
                queue(st, pathJoin(bundle.base, <<"nls", ".", "bundle", ".">> \o languageId \o <<"json">>),
                      Join([m \in 1..Len(bundle.content) |->
                               bundle.content[m].key \o <<":">> \o bundle.content[m].value],
                           <<",">>)),
                n + 1)

bundleLanguageFilesEnd(st) ==
    [queueBundles(st, 1) EXCEPT !.out = Append(@, Event("end", <<>>, <<>>))]

\* A loop over the languages that queues no file.
queueNoLocalized(st, languages, n, file, filename) == st

\* languages.forEach(language => { ... }) of createAdditionalLanguageFiles
RECURSIVE queueLocalized(_, _, _, _, _)
queueLocalized(st, languages, n, file, filename) ==
    IF n > Len(languages) THEN st
    ELSE LET language == languages[n]
             folderName == IF Truthy(language.folderName) THEN Get(language.folderName)
                           ELSE language.id
         IN queueLocalized(
                IF folderName \in file.lib.localized
                THEN queue(st, pathJoin(file.base, filename)
                                  \o <<".", "nls", ".">> \o language.id \o <<".", "json">>,
                           <<"localized">> \o folderName \o file.contents)
                ELSE st,
                languages, n + 1, file, filename)

createAdditionalLanguageFiles(st, languages, file) ==
    LET s1 == queue(st, pathJoin(file.base, file.relative), file.contents)
        isPackageFile == file.relative = <<"package", ".", "nls", ".", "json">>
        isAffected == isPackageFile
                        \/ EndsWith(file.relative, <<"nls", ".", "metadata", ".", "json">>)
        filename == IF isPackageFile THEN DropSuffix(file.relative, NLS_JSON)
                    ELSE DropSuffix(file.relative, NLS_METADATA_JSON)
    IN IF ~isAffected THEN s1
       ELSE IF file.isBuffer THEN queueLocalized(s1, languages, 1, file, filename)
       ELSE emitError(s1, file.relative)

createKeyValuePairFile(st, file) ==
    LET filename == DropSuffix(file.relative, NLS_METADATA_JSON)
        passed == queue(st, pathJoin(file.base, file.relative), file.contents)
    IN IF ~EndsWith(file.relative, NLS_METADATA_JSON) THEN passed
       ELSE IF ~file.isBuffer THEN emitError(st, file.relative)
       ELSE IF ~file.lib.valid THEN emitError(st, file.relative)
       ELSE IF ~file.lib.balanced THEN passed
       ELSE queue(passed, pathJoin(file.base, filename) \o I18N_JSON,
                  <<"kvp">> \o file.contents)

\* ------------------------------------------------------------------------
\* prepareJsonFiles: parse promises, their reactions and the job queue
\* ------------------------------------------------------------------------
\* JSON.stringify(messages, null, '\t'): a string escapes its quotes,
\* backslashes and line ends.
jsonString(text) ==
    <<"\"">>
        \o Join([i \in 1..Len(text) |->
                    CASE text[i] = "\"" -> <<"\\", "\"">>
                      [] text[i] = "\\" -> <<"\\", "\\">>
                      [] text[i] = CRLF -> <<"\\", "r", "\\", "n">>
                      [] OTHER -> <<text[i]>>], <<>>)
        \o <<"\"">>

jsonStringify(messages) ==
    IF Len(messages) = 0 THEN <<"{", "}">>
    ELSE <<"{", "\n">>
            \o Join([i \in 1..Len(messages) |->
                        <<"\t">> \o jsonString(messages[i].key) \o <<":", " ">>
                            \o jsonString(messages[i].value)], <<",", "\n">>)
            \o <<"\n", "}">>

\* A prolog is a string, or a list of lines: [isArray, text, lines].
createI18nFile(folderName, originalFilePath, messages, prolog) ==
    LET content == (IF prolog.isArray THEN Join(prolog.lines, <<"\n">>) \o <<"\n">>
                    ELSE prolog.text)
                      \o ReplaceAll(jsonStringify(messages), <<CRLF>>, <<"\n">>)
        fileName == originalFilePath \o I18N_JSON
    IN Event("data", IF Truthy(folderName) THEN pathJoin(Get(folderName), fileName)
                     ELSE fileName,
             content)

\* A folder name that falls back to the id of the language found.
findFolderNameOrId(languages, language) ==
    IF IsSome(languages) /\ IsSome(language)
          /\ \E n \in 1..Len(Get(languages)) : Get(languages)[n].id = Get(language)
    THEN LET found == Get(languages)[CHOOSE n \in 1..Len(Get(languages)) :
                                        Get(languages)[n].id = Get(language)]
         IN IF Truthy(found.folderName) THEN found.folderName ELSE Some(found.id)
    ELSE None

\* languages?.find(({ id }) => id === language) || {}, its folderName
findFolderName(languages, language) ==
    IF IsSome(languages) /\ IsSome(language)
          /\ \E n \in 1..Len(Get(languages)) : Get(languages)[n].id = Get(language)
    THEN LET found == {n \in 1..Len(Get(languages)) : Get(languages)[n].id = Get(language)}
         IN Get(languages)[CHOOSE n \in found : \A m \in found : n <= m].folderName
    ELSE None

\* resolvedFiles.forEach(file => { ... stream.queue(translatedFile) })
RECURSIVE queueI18nFiles(_, _, _, _, _)
queueI18nFiles(events, resolvedFiles, n, languages, prolog) ==
    IF n > Len(resolvedFiles) THEN events
    ELSE queueI18nFiles(
            Append(events,
                   createI18nFile(findFolderName(languages, resolvedFiles[n].language),
                                  Get(resolvedFiles[n].originalFilePath),
                                  resolvedFiles[n].messages, prolog)),
            resolvedFiles, n + 1, languages, prolog)

\* A reaction job that goes before the jobs already waiting.
enqueueJobFirst(jobs, job) == <<job>> \o jobs

\* The reactions of settled promises wait in the job queue, first in first out.
enqueueJob(jobs, job) == Append(jobs, job)

\* The closure of prepareJsonFiles and the promises it made: acc is
\* [promises, jobs, all, waiting, unhandled]; all is the state of the promise
\* of Promise.all, waiting the number of parse promises it still waits for.
\* The write handler: XLF.parse settles its promise before it returns, so the
\* reaction of then() is put in the job queue at once.
prepareJsonFiles(st, languages, xlf) ==
    LET forceLanguage == IsSome(languages) /\ Len(Get(languages)) > 0
        parsePromise == parseResult(xlf, forceLanguage)
    IN [st EXCEPT !.acc.promises = Append(@, parsePromise),
                  !.acc.jobs = enqueueJob(@, [kind |-> "then", promise |-> Len(st.acc.promises) + 1])]

\* The end handler: Promise.all(parsePromises).then(...).catch(...)
RECURSIVE enqueueAll(_, _, _)
enqueueAll(jobs, promises, n) ==
    IF n > Len(promises) THEN jobs
    ELSE enqueueAll(enqueueJob(jobs, [kind |-> "all", promise |-> n]), promises, n + 1)

\* An end handler that does not wait for the promises.
prepareJsonFilesEndNow(st) ==
    [st EXCEPT !.acc.all = "resolved", !.out = Append(@, Event("end", <<>>, <<>>))]

prepareJsonFilesEnd(st) ==
    IF Len(st.acc.promises) = 0
    THEN [st EXCEPT !.acc.all = "resolved",
                    !.acc.jobs = enqueueJob(@, [kind |-> "end", promise |-> 0])]
    ELSE [st EXCEPT !.acc.all = "pending",
                    !.acc.waiting = Len(st.acc.promises),
                    !.acc.jobs = enqueueAll(@, st.acc.promises, 1)]

\* The job at the head of the queue runs.
\*   then:  the reaction of parsePromise.then(function (resolvedFiles) ...); a
\*          rejected parse promise rejects the promise then() returned, which
\*          has no handler.
\*   all:   the reaction Promise.all gave the parse promise.
\*   end:   () => { this.queue(null); }
\*   catch: reason => { throw new Error(reason); }, the rejection of the
\*          promise catch() returned has no handler.
runJob(st, languages, prolog) ==
    LET job == Head(st.acc.jobs)
        rest == [st EXCEPT !.acc.jobs = Tail(@)]
        promise == st.acc.promises[job.promise]
    IN IF job.kind = "then"
       THEN IF promise.state = "resolved"
            THEN [rest EXCEPT !.out = queueI18nFiles(@, Get(promise.value), 1, languages, prolog)]
            ELSE [rest EXCEPT !.acc.unhandled = Append(@, Get(promise.reason))]
       ELSE IF job.kind = "all"
       THEN IF st.acc.all # "pending" THEN rest
            ELSE IF promise.state = "rejected"
            THEN [rest EXCEPT !.acc.all = "rejected",
                              !.acc.jobs = enqueueJob(@, [kind |-> "catch", promise |-> job.promise])]
            ELSE IF st.acc.waiting = 1
            THEN [rest EXCEPT !.acc.all = "resolved", !.acc.waiting = 0,
                              !.acc.jobs = enqueueJob(@, [kind |-> "end", promise |-> 0])]
            ELSE [rest EXCEPT !.acc.waiting = @ - 1]
       ELSE IF job.kind = "end"
       THEN [rest EXCEPT !.out = Append(@, Event("end", <<>>, <<>>))]
       ELSE [rest EXCEPT !.acc.unhandled = Append(@, Get(promise.reason))]

\* ------------------------------------------------------------------------
\* Scenario: one stage written a sequence of files, then ended
\* ------------------------------------------------------------------------
MaxFiles == 2

Barriers == {"bundleMetaDataFiles", "bundleLanguageFiles"}

Stages ==
    Barriers \cup {"rewriteLocalizeCalls", "createMetaDataFiles",
                   "createAdditionalLanguageFiles", "createKeyValuePairFile"}

StageFile(relative, isBuffer, contents, lib) ==
    [relative |-> relative, base |-> <<"src">>, isBuffer |-> isBuffer,
     contents |-> contents, lib |-> lib]

LibResult(errors, bundle, valid, balanced, localized) ==
    [errors |-> errors, bundle |-> bundle, valid |-> valid, balanced |-> balanced,
     localized |-> localized]

StageFiles ==
    {StageFile(<<"a", ".", "js">>, TRUE, <<"1">>, LibResult(FALSE, TRUE, FALSE, FALSE, {})),
     StageFile(<<"b", ".", "js">>, TRUE, <<"2">>, LibResult(FALSE, FALSE, FALSE, FALSE, {})),
     StageFile(<<"c", ".", "js">>, TRUE, <<"3">>, LibResult(TRUE, FALSE, FALSE, FALSE, {})),
     StageFile(<<"d", ".", "js">>, FALSE, <<>>, LibResult(FALSE, FALSE, FALSE, FALSE, {})),
     StageFile(<<"a">> \o NLS_METADATA_JSON, TRUE, <<"4">>,
               LibResult(FALSE, FALSE, TRUE, TRUE, {<<"de">>})),
     StageFile(<<"b">> \o NLS_METADATA_JSON, TRUE, <<"5">>,
               LibResult(FALSE, FALSE, TRUE, FALSE, {<<"de">>, <<"fra">>})),
     StageFile(<<"c">> \o NLS_METADATA_JSON, TRUE, <<"6">>,
               LibResult(FALSE, FALSE, FALSE, FALSE, {})),
     StageFile(<<"e">> \o NLS_METADATA_JSON, FALSE, <<>>,
               LibResult(FALSE, FALSE, FALSE, FALSE, {})),
     StageFile(<<"a">> \o NLS_JSON, TRUE, <<"7">>, LibResult(FALSE, FALSE, FALSE, FALSE, {})),
     StageFile(<<"a">> \o NLS_JSON, TRUE, <<"10">>, LibResult(FALSE, FALSE, FALSE, FALSE, {})),
     StageFile(<<"b">> \o NLS_JSON, TRUE, <<"11">>, LibResult(FALSE, FALSE, FALSE, FALSE, {})),
     StageFile(<<"a", ".", "nls", ".", "de", ".", "json">>, TRUE, <<"8">>,
               LibResult(FALSE, FALSE, FALSE, FALSE, {})),
     [StageFile(<<"b", ".", "nls", ".", "de", ".", "json">>, TRUE, <<"12">>,
                LibResult(FALSE, FALSE, FALSE, FALSE, {})) EXCEPT !.base = <<"out">>],
     StageFile(<<"package">> \o NLS_JSON, TRUE, <<"9">>,
               LibResult(FALSE, FALSE, FALSE, FALSE, {<<"de">>, <<"fra">>})),
     StageFile(<<"readme", ".", "md">>, TRUE, <<"0">>,
               LibResult(FALSE, FALSE, FALSE, FALSE, {}))}

\* The languages createAdditionalLanguageFiles is called with.
StageLanguages ==
    <<[id |-> <<"de">>, folderName |-> None], [id |-> <<"fr">>, folderName |-> Some(<<"fra">>)]>>

InitStages ==
    /\ \E stage \in Stages, input \in BoundedSeq(StageFiles, MaxFiles) :
          arg = [stage |-> stage, input |-> input, next |-> 1, origins |-> <<>>,
                 st |-> [out |-> <<>>, error |-> None,
                         acc |-> IF stage = "bundleMetaDataFiles"
                                 THEN [base |-> None, added |-> <<>>] ELSE <<>>]]
    /\ files = <<>> /\ buffer = <<>> /\ target = None
    /\ last = Idle
    /\ pc = "streaming" /\ out = <<>>

\* The upstream writes the next file: the write handler of the stage runs.
StageWrite ==
    /\ arg.stage \in Stages /\ pc = "streaming" /\ arg.next <= Len(arg.input)
    /\ LET file == arg.input[arg.next]
           st == CASE arg.stage = "rewriteLocalizeCalls" -> processFiles(arg.st, file, TRUE)
                   [] arg.stage = "createMetaDataFiles" -> processFiles(arg.st, file, FALSE)
                   [] arg.stage = "bundleMetaDataFiles" -> bundleMetaDataFiles(arg.st, file)
                   [] arg.stage = "bundleLanguageFiles" -> bundleLanguageFiles(arg.st, file)
                   [] arg.stage = "createAdditionalLanguageFiles" ->
                         createAdditionalLanguageFiles(arg.st, StageLanguages, file)
                   [] arg.stage = "createKeyValuePairFile" -> createKeyValuePairFile(arg.st, file)
       IN /\ arg' = [arg EXCEPT !.next = @ + 1, !.st = st,
                                !.origins = @ \o [n \in 1..(Len(st.out) - Len(out)) |-> arg.next]]
          /\ out' = st.out
          /\ last' = Call("write", pathJoin(file.base, file.relative), <<>>, <<>>, None, st.error)
          /\ pc' = IF IsSome(st.error) THEN "thrown" ELSE "streaming"
    /\ UNCHANGED <<files, buffer, target>>

\* The upstream ends the stream: the end handler runs, queue(null) by default.
StageEnd ==
    /\ arg.stage \in Stages /\ pc = "streaming" /\ arg.next > Len(arg.input)
    /\ LET st == CASE arg.stage = "bundleMetaDataFiles" -> bundleMetaDataFilesEnd(arg.st)
                   [] arg.stage = "bundleLanguageFiles" -> bundleLanguageFilesEnd(arg.st)
                   [] OTHER -> [arg.st EXCEPT !.out = Append(@, Event("end", <<>>, <<>>))]
       IN /\ arg' = [arg EXCEPT !.st = st,
                                !.origins = @ \o [n \in 1..(Len(st.out) - Len(out)) |-> 0]]
          /\ out' = st.out
          /\ last' = Call("end", <<>>, <<>>, <<>>, None, None)
    /\ pc' = "ended"
    /\ UNCHANGED <<files, buffer, target>>

NextStages == StageWrite \/ StageEnd

\* ------------------------------------------------------------------------
\* Scenario: prepareJsonFiles written XLIFF documents, its jobs run in turn
\* ------------------------------------------------------------------------
\* The documents as xml2js hands them to XLF.parse: one file group, two file
\* groups, a file group without target-language, a file node without original.
JsonDocuments ==
    {Tree(<<[attrs |-> PlainAttrs, body |-> BodyOf(<<TranslatedUnit>>)]>>),
     Tree(<<[attrs |-> Some([original |-> Some(ModuleA), targetLanguage |-> Some(<<"D", "E">>)]),
             body |-> BodyOf(<<TranslatedUnit, UntranslatedUnit>>)],
            [attrs |-> PlainAttrs, body |-> BodyOf(<<TranslatedUnit>>)]>>),
     Tree(<<[attrs |-> Some([original |-> Some(ModuleA), targetLanguage |-> None]),
             body |-> BodyOf(<<TranslatedUnit>>)]>>),
     Tree(<<[attrs |-> Some([original |-> None, targetLanguage |-> Some(<<"D", "E">>)]),
             body |-> BodyOf(<<TranslatedUnit>>)]>>)}

JsonLanguages ==
    {None, Some(<<>>),
     Some(<<[id |-> <<"d", "e">>, folderName |-> Some(<<"deu">>)]>>),
     Some(<<[id |-> <<"f", "r">>, folderName |-> Some(<<"fra">>)],
            [id |-> <<"d", "e">>, folderName |-> None]>>)}

JsonProlog ==
    {[isArray |-> FALSE, text |-> <<>>, lines |-> <<>>],
     [isArray |-> FALSE, text |-> <<"#">>, lines |-> <<>>],
     [isArray |-> TRUE, text |-> <<>>, lines |-> <<<<"#">>, <<"x">>>>]}

InitJson ==
    /\ \E input \in BoundedSeq(JsonDocuments, MaxFiles), languages \in JsonLanguages,
          prolog \in JsonProlog :
          arg = [stage |-> "prepareJsonFiles", input |-> input, next |-> 1, origins |-> <<>>,
                 languages |-> languages, prolog |-> prolog,
                 st |-> [out |-> <<>>, error |-> None,
                         acc |-> [promises |-> <<>>, jobs |-> <<>>, all |-> "none",
                                  waiting |-> 0, unhandled |-> <<>>]]]
    /\ files = <<>> /\ buffer = <<>> /\ target = None
    /\ last = Idle
    /\ pc = "streaming" /\ out = <<>>

JsonWrite ==
    /\ arg.stage = "prepareJsonFiles" /\ pc = "streaming" /\ arg.next <= Len(arg.input)
    /\ arg' = [arg EXCEPT !.next = @ + 1,
                          !.st = prepareJsonFiles(arg.st, arg.languages, arg.input[arg.next])]
    /\ last' = Call("write", <<>>, <<>>, <<>>, None, None)
    /\ UNCHANGED <<files, buffer, target, pc, out>>

JsonEnd ==
    /\ arg.stage = "prepareJsonFiles" /\ pc = "streaming" /\ arg.next > Len(arg.input)
    /\ arg' = [arg EXCEPT !.st = prepareJsonFilesEnd(arg.st)]
    /\ last' = Call("end", <<>>, <<>>, <<>>, None, None)
    /\ pc' = "ending"
    /\ UNCHANGED <<files, buffer, target, out>>

\* The event loop runs the next job.
JsonJob ==
    /\ arg.stage = "prepareJsonFiles" /\ Len(arg.st.acc.jobs) > 0
    /\ LET job == Head(arg.st.acc.jobs)
           st == runJob(arg.st, arg.languages, arg.prolog)
       IN /\ arg' = [arg EXCEPT !.st = st,
                                !.origins = @ \o [n \in 1..(Len(st.out) - Len(out)) |-> job.promise]]
          /\ out' = st.out
          /\ last' = Call(job.kind, <<>>, <<>>, <<>>, None, None)
          /\ pc' = IF job.kind = "end" THEN "ended" ELSE pc
    /\ UNCHANGED <<files, buffer, target>>

NextJson == JsonWrite \/ JsonEnd \/ JsonJob

SpecJson == InitJson /\ [][NextJson]_vars

\* Every stage, createXlfFiles and prepareJsonFiles among them.
SpecPipeline ==
    (InitStages \/ InitXlfFiles \/ InitJson)
        /\ [][NextStages \/ NextXlfFiles \/ NextJson]_vars

\* The events a step has added to those sent downstream.
Added == SubSeq(out', Len(out) + 1, Len(out'))

\* C16 as stated: no write to bundleMetaDataFiles, bundleLanguageFiles or
\* createXlfFiles queues a record downstream; the end adds its records and
\* then end-of-stream.
NothingBeforeEnd ==
    [][arg.stage \in Barriers \cup {"createXlfFiles"} =>
         /\ last'.op = "write" => Sent(Added, "data") = {}
         /\ (last'.op = "end" /\ pc' = "ended") => Sent(Added, "end") = {Len(Added)}]_vars

\* C16: a write to bundleMetaDataFiles or bundleLanguageFiles queues nothing
\* but the written file itself, unchanged, and only when the stage does not
\* take it into a bundle (its name is not that of a bundled file, or for
\* bundleLanguageFiles it is no buffer); a write to createXlfFiles queues
\* nothing; every bundle and the document are queued by the end, before the
\* one end-of-stream that closes the output.
BundlesAtEnd ==
    [][/\ arg.stage \in Barriers =>
            /\ last'.op = "write" =>
                  LET file == arg.input[arg.next]
                      taken == IF arg.stage = "bundleMetaDataFiles"
                               THEN EndsWith(file.relative, NLS_METADATA_JSON)
                               ELSE nlsMatch(file.relative).matched /\ file.isBuffer
                  IN /\ taken => Sent(Added, "data") = {}
                     /\ ~taken => Added = <<Event("data", last'.original, file.contents)>>
                     /\ Sent(Added, "end") = {}
            /\ last'.op = "end" =>
                  /\ Sent(Added, "end") = {Len(Added)}
                  /\ Cardinality(Sent(Added, "data"))
                        = IF arg.stage = "bundleLanguageFiles" THEN Len(arg.st.acc)
                          ELSE IF IsSome(arg.st.acc.base) THEN 2 ELSE 0
       /\ arg.stage = "createXlfFiles" =>
            /\ last'.op = "write" => (Sent(Added, "data") = {} /\ Sent(Added, "end") = {})
            /\ (last'.op = "end" /\ pc' = "ended") =>
                  /\ Sent(Added, "end") = {Len(Added)}
                  /\ Cardinality(Sent(Added, "data")) = IF arg'.st.xlf THEN 1 ELSE 0
            /\ (last'.op = "end" /\ pc' = "thrown") => Added = <<>>]_vars

\* C16 witness: bundleLanguageFiles was written an unrelated file and a
\* language fragment; the first went downstream at once, the bundle at the end.
PassedBeforeBundle ==
    /\ arg.stage = "bundleLanguageFiles" /\ pc = "ended"
    /\ Len(out) = 3
    /\ out[1] = Event("data", <<"src", "/", "readme", ".", "md">>, <<"0">>)
    /\ out[2].path = <<"src", "/", "nls", ".", "bundle", ".", "de", ".", "json">>
    /\ out[3].event = "end"

\* C17: in rewriteLocalizeCalls, createMetaDataFiles,
\* createAdditionalLanguageFiles, createKeyValuePairFile and prepareJsonFiles
\* the records sent downstream are in the order of the inputs they were made
\* from: no record of an input comes after a record of a later input, and
\* every record is named after its input (the file written, or a file group
\* of the document written).
OutputsInInputOrder ==
    arg.stage \in (Stages \ Barriers) \cup {"prepareJsonFiles"} =>
        /\ Len(arg.origins) = Len(out)
        /\ \A m, n \in Sent(out, "data") : m < n => arg.origins[m] <= arg.origins[n]
        /\ \A n \in Sent(out, "data") :
              /\ arg.origins[n] \in 1..(arg.next - 1)
              /\ IF arg.stage = "prepareJsonFiles"
                 THEN \E f \in 1..Len(DocFiles(arg.input[arg.origins[n]])) :
                         LET file == DocFiles(arg.input[arg.origins[n]])[f]
                         IN HasOriginal(file)
                              /\ EndsWith(out[n].path, Get(Get(file.attrs).original) \o I18N_JSON)
                 ELSE SubSeq(out[n].path, 1, 3)
                         = arg.input[arg.origins[n]].base
                              \o <<"/", arg.input[arg.origins[n]].relative[1]>>

\* C17 witness: prepareJsonFiles has ended after two documents; the file of
\* the first came first, the two files of the second after it.
ParsedInTurn ==
    /\ arg.stage = "prepareJsonFiles" /\ pc = "ended"
    /\ arg.origins = <<1, 2, 2, 0>>
    /\ out[2].path # out[3].path

\* The number of file groups the parse promises of a run resolved with.
RECURSIVE ResolvedFiles(_)
ResolvedFiles(promises) ==
    IF promises = <<>> THEN 0
    ELSE (IF Head(promises).state = "resolved" THEN Len(Get(Head(promises).value)) ELSE 0)
            + ResolvedFiles(Tail(promises))

\* C18: when prepareJsonFiles has signalled end-of-stream, end-of-input was
\* signalled to it, every document written has a parse promise and every
\* parse promise resolved, the files of all of them are queued, and
\* end-of-stream is the last event sent: no file is queued after it.
EndAfterAllParsed ==
    (arg.stage = "prepareJsonFiles" /\ Sent(out, "end") # {}) =>
        /\ pc = "ended"
        /\ Len(arg.st.acc.promises) = Len(arg.input)
        /\ \A n \in 1..Len(arg.input) : arg.st.acc.promises[n].state = "resolved"
        /\ Cardinality(Sent(out, "data")) = ResolvedFiles(arg.st.acc.promises)
        /\ Sent(out, "end") = {Len(out)}
        /\ arg.st.acc.jobs = <<>>

\* C18 witness: end-of-stream after two documents, the three files of their
\* file groups queued before it.
EndedAfterTwoParses ==
    /\ arg.stage = "prepareJsonFiles" /\ pc = "ended"
    /\ Len(arg.st.acc.promises) = 2
    /\ Sent(out, "data") = {1, 2, 3} /\ Sent(out, "end") = {4}

\* The job queue is empty after end-of-input: nothing is left to run.
Quiescent == arg.stage = "prepareJsonFiles" /\ pc \in {"ending", "ended"} /\ arg.st.acc.jobs = <<>>

\* C19: when nothing is left to run after end-of-input, prepareJsonFiles has
\* signalled end-of-stream or an error on its stream, also when a parse failed.
EndOrErrorSignalled ==
    Quiescent => (Sent(out, "end") # {} \/ Sent(out, "error") # {})

\* The file groups all parse promises of a run resolved with, in their order.
RECURSIVE ParsedGroups(_)
ParsedGroups(promises) ==
    IF promises = <<>> THEN <<>>
    ELSE (IF Head(promises).state = "resolved" THEN Get(Head(promises).value) ELSE <<>>)
            \o ParsedGroups(Tail(promises))

\* The folder names configured for a language id.
FoldersOf(languages, language) ==
    IF IsSome(languages) /\ IsSome(language)
    THEN {Get(languages)[n].folderName : n \in {m \in 1..Len(Get(languages)) :
                                                   Get(languages)[m].id = Get(language)}}
    ELSE {}

WithoutFolderName(languages) ==
    {n \in 1..Len(languages) : ~Truthy(languages[n].folderName)}

\* C21: a language entry without folderName has its id used as the folder
\* name: createAdditionalLanguageFiles asks for the messages of the folder
\* named by the id, and prepareJsonFiles puts the file of a group of that
\* language under the folder named by the id.
FolderNameFallsBackToId ==
    /\ arg.stage = "createAdditionalLanguageFiles" =>
          \A i \in 1..(arg.next - 1), n \in WithoutFolderName(StageLanguages) :
             LET file == arg.input[i]
                 language == StageLanguages[n]
             IN (/\ file.isBuffer
                 /\ \/ file.relative = <<"package">> \o NLS_JSON
                    \/ EndsWith(file.relative, NLS_METADATA_JSON)
                 /\ language.id \in file.lib.localized)
                   => \E e \in 1..Len(out) :
                         /\ out[e].event = "data"
                         /\ EndsWith(out[e].path, <<".", "nls", ".">> \o language.id \o <<".", "json">>)
                         /\ out[e].contents = <<"localized">> \o language.id \o file.contents
    /\ (arg.stage = "prepareJsonFiles" /\ pc = "ended") =>
          LET groups == ParsedGroups(arg.st.acc.promises)
          IN \A g \in 1..Len(groups) :
                FoldersOf(arg.languages, groups[g].language) = {None}
                   => /\ g <= Len(out)
                      /\ out[g].path = Get(groups[g].language) \o <<"/">>
                            \o Get(groups[g].originalFilePath) \o <<".", "i18n", ".", "json">>


\* The pieces of a text between the occurrences of a separator.
RECURSIVE SplitOn(_, _)
SplitOn(text, sep) ==
    IF text = <<>> THEN <<>>
    ELSE LET seps == {i \in 1..Len(text) : text[i] = sep}
         IN IF seps = {} THEN <<text>>
            ELSE LET i == CHOOSE i \in seps : \A k \in seps : i <= k
                 IN <<SubSeq(text, 1, i - 1)>> \o SplitOn(SubSeq(text, i + 1, Len(text)), sep)

\* The module keys and the key/value pairs a bundle file holds.
BundleEntries(contents) ==
    {SplitOn(contents, ",")[n] : n \in 1..Len(SplitOn(contents, ","))}

BundleKeys(contents) == {Head(SplitOn(e, ":")) : e \in BundleEntries(contents)}

\* A fragment is named <module>.nls.json or <module>.nls.<language>.json.
HasLanguagePart(name) ==
    /\ Len(name) >= 7
    /\ SubSeq(name, Len(name) - 5, Len(name) - 3) = <<".", "nls", ".">>
    /\ SubSeq(name, Len(name) - 1, Len(name)) = <<".", "json">>

IsFragment(file) ==
    file.isBuffer /\ (EndsWith(file.relative, NLS_JSON) \/ HasLanguagePart(file.relative))

FragmentLanguage(file) ==
    IF HasLanguagePart(file.relative) THEN <<file.relative[Len(file.relative) - 2]>>
    ELSE <<"en">>

FragmentModule(file) ==
    IF HasLanguagePart(file.relative) THEN SubSeq(file.relative, 1, Len(file.relative) - 6)
    ELSE SubSeq(file.relative, 1, Len(file.relative) - 4)

\* The files the end handler of the stage queued, and the name of a bundle.
QueuedAtEnd == {e \in 1..Len(out) : out[e].event = "data" /\ arg.origins[e] = 0}

BundlePath(base, language) ==
    base \o <<"/", "nls", ".", "bundle", ".">>
        \o (IF language = <<"en">> THEN <<>> ELSE language \o <<".">>) \o <<"json">>

\* The base directory of the first fragment of a language in an input.
FirstBase(input, language) ==
    LET of == {i \in 1..Len(input) :
                  IsFragment(input[i]) /\ FragmentLanguage(input[i]) = language}
    IN input[CHOOSE i \in of : \A k \in of : i <= k].base

\* C22: when bundleLanguageFiles has ended, the files its end handler queued
\* are one per language among the fragments it consumed ('en' for a name
\* without language): nls.bundle.json for 'en', nls.bundle.<language>.json
\* otherwise, in the base directory of the first fragment of the language,
\* and each holds exactly the module keys of the fragments of its language.
BundlePerLanguage ==
    (arg.stage = "bundleLanguageFiles" /\ pc = "ended") =>
        LET fragments == {i \in 1..Len(arg.input) : IsFragment(arg.input[i])}
            languages == {FragmentLanguage(arg.input[i]) : i \in fragments}
        IN /\ Cardinality(QueuedAtEnd) = Cardinality(languages)
           /\ {out[e].path : e \in QueuedAtEnd}
                 = {BundlePath(FirstBase(arg.input, l), l) : l \in languages}
           /\ \A e \in QueuedAtEnd, l \in languages :
                 out[e].path = BundlePath(FirstBase(arg.input, l), l) =>
                    BundleKeys(out[e].contents)
                       = {FragmentModule(arg.input[i]) :
                             i \in {f \in fragments : FragmentLanguage(arg.input[f]) = l}}

\* C22 witness: a.nls.json and b.nls.json were consumed and the one bundle
\* nls.bundle.json with the modules a and b was queued at the end.
TwoModulesOneBundle ==
    /\ arg.stage = "bundleLanguageFiles" /\ pc = "ended"
    /\ Len(arg.input) = 2
    /\ {arg.input[1].relative, arg.input[2].relative} = {<<"a">> \o NLS_JSON, <<"b">> \o NLS_JSON}
    /\ Cardinality(QueuedAtEnd) = 1
    /\ \E e \in QueuedAtEnd :
          /\ out[e].path = BundlePath(<<"src">>, <<"en">>)
          /\ BundleKeys(out[e].contents) = {<<"a">>, <<"b">>}


\* bundleLanguageFiles written the files of an input in turn and then ended:
\* the bundle files it queued, each as its path and the pairs it holds.
RECURSIVE bundleAll(_, _, _)
bundleAll(st, input, n) ==
    IF n > Len(input) THEN bundleLanguageFilesEnd(st)
    ELSE bundleAll(bundleLanguageFiles(st, input[n]), input, n + 1)

BundlesOf(input) ==
    LET passed == Cardinality({i \in 1..Len(input) : ~IsFragment(input[i])})
        events == bundleAll([out |-> <<>>, error |-> None, acc |-> <<>>], input, 1).out
    IN {[path |-> events[e].path, pairs |-> BundleEntries(events[e].contents)] :
           e \in {k \in (passed + 1)..Len(events) : events[k].event = "data"}}

\* The fragments of an input with the language and module key of fragment i.
SamePair(input, i) ==
    {k \in 1..Len(input) :
        /\ IsFragment(input[k])
        /\ FragmentLanguage(input[k]) = FragmentLanguage(input[i])
        /\ FragmentModule(input[k]) = FragmentModule(input[i])}

\* The bundle files queued by the run that has ended.
QueuedBundles ==
    {[path |-> out[e].path, pairs |-> BundleEntries(out[e].contents)] : e \in QueuedAtEnd}

NoPairTwice(input) ==
    \A i \in 1..Len(input) : IsFragment(input[i]) => SamePair(input, i) = {i}

SameInAnyOrder(input) ==
    \A p \in Permutations(1..Len(input)) :
       BundlesOf([n \in 1..Len(input) |-> input[p[n]]]) = QueuedBundles

\* Under a module key the bundle of a language holds the value of the last
\* fragment that arrived with that language and module key.
LastFragmentWins(input) ==
    \A i \in {k \in 1..Len(input) : IsFragment(input[k])} :
       LET latest == CHOOSE k \in SamePair(input, i) : \A m \in SamePair(input, i) : m <= k
           language == FragmentLanguage(input[i])
       IN \E b \in QueuedBundles :
             /\ b.path = BundlePath(FirstBase(input, language), language)
             /\ {e \in b.pairs : Head(SplitOn(e, ":")) = FragmentModule(input[i])}
                   = {FragmentModule(input[i]) \o <<":">> \o input[latest].contents}

\* C23 as stated: when bundleLanguageFiles has ended and no (language, module
\* key) pair occurred twice among the fragments, the stage given the same
\* files in any other order queues the same bundle files, each with the same
\* module keys and values; and the last fragment of a pair decides its value.
BundlesSameInAnyOrder ==
    (arg.stage = "bundleLanguageFiles" /\ pc = "ended") =>
        /\ NoPairTwice(arg.input) => SameInAnyOrder(arg.input)
        /\ LastFragmentWins(arg.input)

\* C23: as above, for fragments that all have the same base directory.
BundlesOrderIndependent ==
    (arg.stage = "bundleLanguageFiles" /\ pc = "ended") =>
        /\ (/\ NoPairTwice(arg.input)
            /\ \A i, k \in 1..Len(arg.input) :
                  (IsFragment(arg.input[i]) /\ IsFragment(arg.input[k]))
                     => arg.input[i].base = arg.input[k].base)
              => SameInAnyOrder(arg.input)
        /\ LastFragmentWins(arg.input)

\* C23 witness: a.nls.json arrived twice with different contents and the
\* bundle holds the contents of the second under the module a.
LastFragmentStored ==
    /\ arg.stage = "bundleLanguageFiles" /\ pc = "ended"
    /\ Len(arg.input) = 2
    /\ arg.input[1].relative = <<"a">> \o NLS_JSON
    /\ arg.input[2].relative = <<"a">> \o NLS_JSON
    /\ arg.input[1].contents # arg.input[2].contents
    /\ \E e \in QueuedAtEnd :
          BundleEntries(out[e].contents) = {<<"a", ":">> \o arg.input[2].contents}


\* C24: a file named <module>.nls.metadata.json is never taken for a fragment
\* of a language 'metadata': bundleLanguageFiles keeps no bundle of that
\* language and queues no nls.bundle.metadata.json.
MetadataNotALanguage ==
    arg.stage = "bundleLanguageFiles" =>
        /\ \A b \in 1..Len(arg.st.acc) : arg.st.acc[b].language # <<"metadata">>
        /\ \A e \in 1..Len(out) :
              out[e].event = "data" =>
                 ~EndsWith(out[e].path, <<"nls", ".", "bundle", ".", "metadata", ".", "json">>)


\* ------------------------------------------------------------------------
\* MetaDataBundler: the accumulator of bundleMetaDataFiles
\* ------------------------------------------------------------------------
\* A bundler is [id, outDir, content]; content maps the normalized file path
\* of a record to its [messages, keys].  A record is [filePath, keys,
\* messages], its filePath already in normalized form.
MetaDataBundler_new(id, outDir) ==
    [id |-> id, outDir |-> outDir, content |-> <<>>]

\* An add that forgets the records added before.
MetaDataBundler_addAlone(bundler, entry) ==
    [bundler EXCEPT !.content =
        [p \in {entry.filePath} |-> [messages |-> entry.messages, keys |-> entry.keys]]]

MetaDataBundler_add(bundler, entry) ==
    [bundler EXCEPT !.content =
        [p \in DOMAIN @ \cup {entry.filePath} |->
            IF p = entry.filePath THEN [messages |-> entry.messages, keys |-> entry.keys]
            ELSE @[p]]]

MetaDataBundler_bundle(bundler) ==
    <<[id |-> bundler.id, outDir |-> bundler.outDir], bundler.content>>

\* ------------------------------------------------------------------------
\* Scenario: a bundler is given records and asked for its bundle
\* ------------------------------------------------------------------------
MaxRecords == 3

BundlerIds == {<<"ext">>, <<"pub", ".", "ext">>}
BundlerOutDirs == {<<"out">>, <<"dist">>}

BundlerRecords ==
    {[filePath |-> <<"a">>, keys |-> <<KeyK>>, messages |-> <<<<"m">>>>],
     [filePath |-> <<"a">>, keys |-> <<KeyJ>>, messages |-> <<<<"n">>>>],
     [filePath |-> <<"lib", "/", "b">>, keys |-> <<KeyK, KeyJ>>, messages |-> <<<<"m">>, <<"n">>>>],
     [filePath |-> <<"c">>, keys |-> <<>>, messages |-> <<>>]}

InitBundler ==
    /\ \E id \in BundlerIds, outDir \in BundlerOutDirs :
          arg = [stage |-> "MetaDataBundler", id |-> id, outDir |-> outDir, added |-> <<>>,
                 bundler |-> MetaDataBundler_new(id, outDir)]
    /\ files = <<>> /\ buffer = <<>> /\ target = None
    /\ last = Idle
    /\ pc = "adding" /\ out = <<>>

\* bundler.add(json) of the write handler
BundlerAdd ==
    /\ arg.stage = "MetaDataBundler" /\ Len(arg.added) < MaxRecords
    /\ \E entry \in BundlerRecords :
          /\ arg' = [arg EXCEPT !.added = Append(@, entry),
                                !.bundler = MetaDataBundler_add(@, entry)]
          /\ last' = Call("add", entry.filePath, entry.keys, entry.messages, None, None)
    /\ pc' = "adding"
    /\ UNCHANGED <<files, buffer, target, out>>

\* const [header, content] = bundler.bundle() of the end handler
BundlerBundle ==
    /\ arg.stage = "MetaDataBundler"
    /\ out' = MetaDataBundler_bundle(arg.bundler)
    /\ last' = Call("bundle", <<>>, <<>>, <<>>, None, None)
    /\ pc' = "bundled"
    /\ UNCHANGED <<files, buffer, target, arg>>

NextBundler == BundlerAdd \/ BundlerBundle

SpecBundler == InitBundler /\ [][NextBundler]_vars

\* The bundle of a fresh bundler given the records of a list in turn.
RECURSIVE AddAll(_, _, _)
AddAll(bundler, records, n) ==
    IF n > Len(records) THEN MetaDataBundler_bundle(bundler)
    ELSE AddAll(MetaDataBundler_add(bundler, records[n]), records, n + 1)

\* C25: when bundle() is called after records with distinct file paths were
\* added, the header is the id and outDir the bundler was constructed with,
\* the content has exactly the file paths of the records and holds under each
\* the keys and messages of its record, and a bundler given the same records
\* in any other order returns the same pair.
BundleCommutative ==
    (arg.stage = "MetaDataBundler" /\ pc = "bundled"
        /\ \A i, k \in 1..Len(arg.added) :
              arg.added[i].filePath = arg.added[k].filePath => i = k) =>
        /\ out[1] = [id |-> arg.id, outDir |-> arg.outDir]
        /\ DOMAIN out[2] = {arg.added[i].filePath : i \in 1..Len(arg.added)}
        /\ \A i \in 1..Len(arg.added) :
              out[2][arg.added[i].filePath]
                 = [messages |-> arg.added[i].messages, keys |-> arg.added[i].keys]
        /\ \A p \in Permutations(1..Len(arg.added)) :
              AddAll(MetaDataBundler_new(arg.id, arg.outDir),
                     [n \in 1..Len(arg.added) |-> arg.added[p[n]]], 1) = out

\* C25 witness: three records with distinct paths were added, b last, and
\* bundle() returned a content with the three paths.
ThreeRecordsBundled ==
    /\ arg.stage = "MetaDataBundler" /\ pc = "bundled"
    /\ Len(arg.added) = 3
    /\ arg.added[3].filePath = <<"lib", "/", "b">>
    /\ Cardinality(DOMAIN out[2]) = 3
    /\ out[2][<<"a">>].keys = <<KeyJ>>


\* ------------------------------------------------------------------------
\* createLocalizedMessages: the messages of a module in one language
\* ------------------------------------------------------------------------
\* The keys of the bundle being localized and the translation source of the
\* language folder: absent, or a list of [key, value].  Returns [messages,
\* problems]: without a source no messages and one problem; otherwise the
\* text of every key the source has, and one problem per key it lacks.
createLocalizedMessages(keys, source) ==
    IF ~IsSome(source)
    THEN [messages |-> None, problems |-> <<<<"not found">>>>]
    ELSE LET texts == Get(source)
             Found(key) == \E n \in 1..Len(texts) : texts[n].key = key
             Localized(key) == texts[CHOOSE n \in 1..Len(texts) : texts[n].key = key].value
             found == SelectSeq(keys, LAMBDA key : Found(key))
             missing == SelectSeq(keys, LAMBDA key : ~Found(key))
         IN [messages |-> Some([n \in 1..Len(found) |->
                                   [key |-> found[n], value |-> Localized(found[n])]]),
             problems |-> [n \in 1..Len(missing) |-> <<"missing">> \o missing[n]]]

\* ------------------------------------------------------------------------
\* Scenario: createAdditionalLanguageFiles written one file to localize
\* ------------------------------------------------------------------------
LocalizeKeys == {<<>>, <<KeyK>>, <<KeyJ>>, <<KeyK, KeyJ>>, <<KeyJ, KeyK>>}

LocalizeSources ==
    {None} \cup
    {Some(texts) : texts \in
        {<<>>,
         <<[key |-> KeyK, value |-> <<"t">>]>>,
         <<[key |-> KeyJ, value |-> <<"u">>]>>,
         <<[key |-> <<"x">>, value |-> <<"v">>]>>,
         <<[key |-> KeyJ, value |-> <<"u">>], [key |-> KeyK, value |-> <<"t">>]>>}}

\* The folders of StageLanguages: the id 'de', the folder name 'fra'.
LocalizeFolders == {<<"de">>, <<"fra">>}

LocalizeFiles ==
    {StageFile(<<"a">> \o NLS_METADATA_JSON, TRUE, <<"4">>, LibResult(FALSE, FALSE, TRUE, TRUE, {})),
     StageFile(<<"package">> \o NLS_JSON, TRUE, <<"9">>, LibResult(FALSE, FALSE, FALSE, FALSE, {})),
     StageFile(<<"e">> \o NLS_METADATA_JSON, FALSE, <<>>, LibResult(FALSE, FALSE, FALSE, FALSE, {}))}

InitLocalize ==
    /\ \E keys \in LocalizeKeys, file \in LocalizeFiles,
          sources \in [LocalizeFolders -> LocalizeSources] :
          arg = [stage |-> "localize", keys |-> keys, sources |-> sources, file |-> file,
                 results |-> <<>>, st |-> [out |-> <<>>, error |-> None, acc |-> <<>>]]
    /\ files = <<>> /\ buffer = <<>> /\ target = None
    /\ last = Idle
    /\ pc = "streaming" /\ out = <<>>

\* The write handler: createLocalizedMessages is called once per language of
\* a buffer file, and a file is queued for every result that has messages.
LocalizeWrite ==
    /\ arg.stage = "localize" /\ pc = "streaming"
    /\ LET results == IF arg.file.isBuffer
                      THEN [f \in LocalizeFolders |->
                               createLocalizedMessages(arg.keys, arg.sources[f])]
                      ELSE <<>>
           file == [arg.file EXCEPT !.lib.localized =
                       {f \in DOMAIN results : IsSome(results[f].messages)}]
       IN \E st \in {createAdditionalLanguageFiles(arg.st, StageLanguages, file)} :
             /\ arg' = [arg EXCEPT !.st = st, !.results = results]
             /\ out' = st.out
             /\ last' = Call("write", pathJoin(file.base, file.relative), <<>>, <<>>, None, None)
    /\ pc' = "written"
    /\ UNCHANGED <<files, buffer, target>>

LocalizeEnd ==
    /\ arg.stage = "localize" /\ pc = "written"
    /\ out' = Append(out, Event("end", <<>>, <<>>))
    /\ arg' = [arg EXCEPT !.st.out = out']
    /\ last' = Call("end", <<>>, <<>>, <<>>, None, None)
    /\ pc' = "ended"
    /\ UNCHANGED <<files, buffer, target>>

NextLocalize == LocalizeWrite \/ LocalizeEnd

SpecLocalize == InitLocalize /\ [][NextLocalize]_vars

\* The keys of a bundle that a translation source has no text for.
MissingKeys(keys, source) ==
    {k \in 1..Len(keys) : \A n \in 1..Len(Get(source)) : Get(source)[n].key # keys[k]}

\* C26: when createAdditionalLanguageFiles has been written a buffer file
\* whose bundle has N keys and the translation source of a language lacks
\* exactly one of them, the result for that language has N-1 messages, none
\* under the missing key and each other key with the text of the source, and
\* exactly one problem, which names the missing key; and the file
\* <name>.nls.<language id>.json of the module was queued.
MissingTranslationTolerated ==
    (arg.stage = "localize" /\ pc # "streaming" /\ arg.file.isBuffer) =>
        \A l \in 1..Len(StageLanguages) :
           LET language == StageLanguages[l]
               folder == IF Truthy(language.folderName) THEN Get(language.folderName)
                         ELSE language.id
               source == arg.sources[folder]
               result == arg.results[folder]
               filename == IF arg.file.relative = <<"package">> \o NLS_JSON
                           THEN <<"package">> ELSE <<"a">>
           IN (IsSome(source) /\ Cardinality(MissingKeys(arg.keys, source)) = 1) =>
                 LET gone == arg.keys[CHOOSE k \in MissingKeys(arg.keys, source) : TRUE]
                 IN /\ IsSome(result.messages)
                    /\ Len(Get(result.messages)) = Len(arg.keys) - 1
                    /\ \A m \in 1..Len(Get(result.messages)) :
                          /\ Get(result.messages)[m].key # gone
                          /\ Get(result.messages)[m] \in
                                {Get(source)[n] : n \in 1..Len(Get(source))}
                    /\ {Get(result.messages)[m].key : m \in 1..Len(Get(result.messages))}
                          = {arg.keys[k] : k \in 1..Len(arg.keys)} \ {gone}
                    /\ Len(result.problems) = 1
                    /\ \E p \in 1..Len(result.problems[1]) : MatchAt(result.problems[1], gone, p)
                    /\ \E e \in 1..Len(out) :
                          /\ out[e].event = "data"
                          /\ out[e].path = <<"src", "/">> \o filename
                                \o <<".", "nls", ".">> \o language.id \o <<".", "json">>

\* C26 witness: the bundle has the keys k and j, the source of 'de' only k;
\* the file of the module was written and a.nls.de.json was queued.
OneTranslationMissing ==
    /\ arg.stage = "localize" /\ pc = "written"
    /\ arg.file.isBuffer /\ arg.file.relative = <<"a">> \o NLS_METADATA_JSON
    /\ arg.keys = <<KeyK, KeyJ>>
    /\ arg.sources[<<"de">>] = Some(<<[key |-> KeyK, value |-> <<"t">>]>>)
    /\ arg.results[<<"de">>].problems = <<<<"missing">> \o KeyJ>>
    /\ \E e \in 1..Len(out) :
          out[e].path = <<"src", "/", "a", ".", "nls", ".", "de", ".", "json">>


\* ------------------------------------------------------------------------
\* Scenario: two streams of the same stage, their writes interleaved
\* ------------------------------------------------------------------------
\* Every call of bundleMetaDataFiles, bundleLanguageFiles or createXlfFiles
\* makes the variables its handlers close over.  closures holds them, one
\* entry per call; a stream is [closure, input, next, out, ended].
Accumulating == {"bundleMetaDataFiles", "bundleLanguageFiles", "createXlfFiles"}

\* The closure of all streams, wherever it was made.
sharedClosure(closures) == 1

\* let base, bundler / const bundles / let _xlf, header, data, ...: made anew
\* by the call that returns the stream.
newClosure(closures) == Len(closures) + 1

freshClosure(kind) ==
    CASE kind = "bundleMetaDataFiles" ->
            [out |-> <<>>, error |-> None, acc |-> [base |-> None, added |-> <<>>]]
      [] kind = "bundleLanguageFiles" -> [out |-> <<>>, error |-> None, acc |-> <<>>]
      [] kind = "createXlfFiles" -> xlfStage

writeHandler(kind, st, file) ==
    CASE kind = "bundleMetaDataFiles" -> bundleMetaDataFiles(st, file)
      [] kind = "bundleLanguageFiles" -> bundleLanguageFiles(st, file)
      [] kind = "createXlfFiles" -> xlfWrite(st, Some(German), file)

endHandler(kind, st) ==
    CASE kind = "bundleMetaDataFiles" -> bundleMetaDataFilesEnd(st)
      [] kind = "bundleLanguageFiles" -> bundleLanguageFilesEnd(st)
      [] kind = "createXlfFiles" -> xlfEnd(st, <<"p">>, <<"e">>, Some(German))

IsolatedFiles(kind) ==
    IF kind = "createXlfFiles"
    THEN {[basename |-> <<"package.nls", ".json">>, isBuffer |-> TRUE,
           contents |-> <<[key |-> KeyK, value |-> StringMessage(<<"a">>)]>>],
          [basename |-> <<"package.nls", ".", "de", ".json">>, isBuffer |-> TRUE,
           contents |-> <<[key |-> KeyK, value |-> <<"t">>]>>]}
    ELSE {StageFile(<<"a">> \o NLS_METADATA_JSON, TRUE, <<"4">>,
                    LibResult(FALSE, FALSE, TRUE, TRUE, {})),
          StageFile(<<"a">> \o NLS_JSON, TRUE, <<"7">>,
                    LibResult(FALSE, FALSE, FALSE, FALSE, {}))}

InitIsolated ==
    /\ \E kind \in Accumulating :
          \E first \in BoundedSeq(IsolatedFiles(kind), MaxFiles),
             second \in BoundedSeq(IsolatedFiles(kind), MaxFiles) :
             arg = [stage |-> "isolated", kind |-> kind, inputs |-> <<first, second>>,
                    closures |-> <<>>, streams |-> <<>>, order |-> <<>>]
    /\ files = <<>> /\ buffer = <<>> /\ target = None
    /\ last = Idle
    /\ pc = "streaming" /\ out = <<>>

\* The stage function is called and returns a stream.
IsolatedCreate ==
    /\ arg.stage = "isolated" /\ Len(arg.streams) < Len(arg.inputs)
    /\ arg' = [arg EXCEPT
                  !.closures = Append(@, freshClosure(arg.kind)),
                  !.streams = Append(@, [closure |-> newClosure(arg.closures),
                                         input |-> arg.inputs[Len(arg.streams) + 1],
                                         next |-> 1, out |-> <<>>, ended |-> FALSE])]
    /\ last' = Call("create", <<>>, <<>>, <<>>, None, None)
    /\ UNCHANGED <<files, buffer, target, pc, out>>

\* One of the streams is written its next file.
IsolatedWrite ==
    /\ arg.stage = "isolated"
    /\ \E i \in 1..Len(arg.streams) :
          LET stream == arg.streams[i]
          IN /\ ~stream.ended /\ stream.next <= Len(stream.input)
             /\ \E st \in {writeHandler(arg.kind,
                                        [arg.closures[stream.closure] EXCEPT !.out = stream.out],
                                        stream.input[stream.next])} :
                   /\ arg' = [arg EXCEPT !.closures[stream.closure] = st,
                                         !.streams[i].next = @ + 1,
                                         !.streams[i].out = st.out,
                                         !.order = Append(@, i)]
                   /\ out' = st.out
    /\ last' = Call("write", <<>>, <<>>, <<>>, None, None)
    /\ UNCHANGED <<files, buffer, target, pc>>

\* One of the streams is ended after its last file.
IsolatedEnd ==
    /\ arg.stage = "isolated"
    /\ \E i \in 1..Len(arg.streams) :
          LET stream == arg.streams[i]
          IN /\ ~stream.ended /\ stream.next > Len(stream.input)
             /\ \E st \in {endHandler(arg.kind,
                                      [arg.closures[stream.closure] EXCEPT !.out = stream.out])} :
                   /\ arg' = [arg EXCEPT !.closures[stream.closure] = st,
                                         !.streams[i].ended = TRUE,
                                         !.streams[i].out = st.out]
                   /\ out' = st.out
                   /\ pc' = IF \A k \in 1..Len(arg.inputs) :
                                  k <= Len(arg.streams) /\ (k = i \/ arg.streams[k].ended)
                            THEN "ended" ELSE pc
    /\ last' = Call("end", <<>>, <<>>, <<>>, None, None)
    /\ UNCHANGED <<files, buffer, target>>

NextIsolated == IsolatedCreate \/ IsolatedWrite \/ IsolatedEnd

SpecIsolated == InitIsolated /\ [][NextIsolated]_vars

\* What one stream of a stage has sent when it alone is written the first n
\* files of an input and, once ended, its end handler has run.
RECURSIVE Alone(_, _, _, _, _)
Alone(kind, st, input, n, ended) ==
    IF input = <<>> \/ n = 0 THEN (IF ended THEN endHandler(kind, st).out ELSE st.out)
    ELSE With(writeHandler(kind, st, Head(input)),
              LAMBDA written : Alone(kind, written, Tail(input), n - 1, ended))

\* C27: two streams of bundleMetaDataFiles, of bundleLanguageFiles or of
\* createXlfFiles, written and ended in any interleaving, have each sent
\* exactly what a stream of that stage sends when it is run alone on the same
\* input up to the same point.
StreamsIsolated ==
    arg.stage = "isolated" =>
        \A i \in 1..Len(arg.streams) :
           arg.streams[i].out
              = Alone(arg.kind, freshClosure(arg.kind), arg.streams[i].input,
                      arg.streams[i].next - 1, arg.streams[i].ended)

\* C27 witness: the two streams were written two files each in turn, both
\* have ended and both queued a file in their end handler.
InterleavedStreamsEnded ==
    /\ arg.stage = "isolated" /\ pc = "ended"
    /\ arg.order = <<1, 2, 1, 2>>
    /\ arg.inputs[1] # arg.inputs[2]
    /\ \A i \in 1..2 :
          \E e \in 1..Len(arg.streams[i].out) :
             /\ arg.streams[i].out[e].event = "data"
             /\ arg.streams[i].out[e].path
                   \in {<<"src", "/", "nls", ".", "metadata", ".", "json">>,
                        <<"src", "/", "nls", ".", "bundle", ".", "json">>,
                        <<"p", "/", "e", ".", "de", ".xlf">>}


\* C28: toString leaves the document as it was, so a toString call that
\* follows a toString call returns the text that call returned.
ToStringRepeatable ==
    [][(last.op = "toString" /\ IsSome(out) /\ last'.op = "toString")
          => (files' = files /\ target' = target /\ out' = out)]_vars


\* C29: a call of addFile, setLanguageBundle or setLanguagePackage that
\* raises its error leaves the file groups and the id, message, comment and
\* target of every item as they were before the call.
FailureLeavesDocument ==
    [][(last'.op \in {"addFile", "setLanguageBundle", "setLanguagePackage"}
           /\ IsSome(last'.error)) => files' = files]_vars


\* C30: a setLanguageBundle call that returns normally leaves the number and
\* order of the file groups, every other group, and the number, order, id,
\* message and comment of the items of its group as they were, and gives
\* item i of its group the escaped translation i as target.
BundleOverlaidByPosition ==
    [][(last'.op = "setLanguageBundle" /\ last'.error = None) =>
          /\ HasFile(files, last'.original)
          /\ Len(files') = Len(files)
          /\ \A g \in 1..Len(files) :
                /\ files'[g].original = files[g].original
                /\ files[g].original # last'.original => files'[g] = files[g]
                /\ Len(files'[g].items) = Len(files[g].items)
                /\ \A i \in 1..Len(files[g].items) :
                      /\ files'[g].items[i].id = files[g].items[i].id
                      /\ files'[g].items[i].message = files[g].items[i].message
                      /\ files'[g].items[i].comment = files[g].items[i].comment
          /\ Len(Get(last'.translation)) = Len(ItemsOf(files', last'.original))
          /\ \A i \in 1..Len(ItemsOf(files', last'.original)) :
                ItemsOf(files', last'.original)[i].target
                   = Some(encodeEntities(Get(last'.translation)[i]))]_vars

\* C30 witness: in a document of two groups, the group 'package' of an item
\* with a comment and an item without got two different translations, the
\* one that needs escaping first.
TwoTargetsInOrder ==
    /\ last.op = "setLanguageBundle" /\ last.error = None
    /\ last.original = Package
    /\ Len(files) = 2
    /\ Get(last.translation) = <<<<"'">>, <<"t">>>>
    /\ LET items == ItemsOf(files, Package)
       IN /\ Len(items) = 2
          /\ IsSome(items[1].comment) /\ ~IsSome(items[2].comment)
          /\ items[1].target = Some(APOS)
          /\ items[2].target = Some(<<"t">>)


\* C31: toString of a document whose file groups were all made by addFile
\* calls that returned normally raises no error, whatever the keys and
\* messages were.
BuiltDocumentSerializable ==
    (pc = "serialized" /\ last.op = "toString") => last.error = None


\* The metadata files bundleMetaDataFiles was written and could read.
ConsumedMetaData ==
    {i \in 1..(arg.next - 1) :
        arg.input[i].isBuffer /\ EndsWith(arg.input[i].relative, NLS_METADATA_JSON)}

\* The events that queue a file of a given name, in any directory.
QueuedAs(name) ==
    {e \in 1..Len(out) : out[e].event = "data" /\ EndsWith(out[e].path, <<"/">> \o name)}

MetaDataHeaderName == <<"nls", ".", "metadata", ".", "header", ".", "json">>
MetaDataName == <<"nls", ".", "metadata", ".", "json">>

\* C32: bundleMetaDataFiles never queues a file it was written under a name
\* that ends in .nls.metadata.json; before the end it queues neither
\* nls.metadata.header.json nor nls.metadata.json; when it has ended and
\* consumed at least one metadata file, it has queued nls.metadata.header.json,
\* then nls.metadata.json, then the end of the stream, each once, in the base
\* directory of the first file consumed; when it consumed none, neither.
MetaDataBundledAtEnd ==
    arg.stage = "bundleMetaDataFiles" =>
        /\ \A e \in 1..Len(out) :
              (out[e].event = "data" /\ arg.origins[e] > 0)
                 => ~EndsWith(arg.input[arg.origins[e]].relative, NLS_METADATA_JSON)
        /\ pc = "streaming" => (QueuedAs(MetaDataHeaderName) = {} /\ QueuedAs(MetaDataName) = {})
        /\ pc = "ended" =>
              /\ Cardinality(Sent(out, "end")) = 1 /\ out[Len(out)].event = "end"
              /\ IF ConsumedMetaData = {}
                 THEN QueuedAs(MetaDataHeaderName) = {} /\ QueuedAs(MetaDataName) = {}
                 ELSE LET first == CHOOSE i \in ConsumedMetaData :
                                      \A k \in ConsumedMetaData : i <= k
                      IN /\ QueuedAs(MetaDataHeaderName) = {Len(out) - 2}
                         /\ QueuedAs(MetaDataName) = {Len(out) - 1}
                         /\ out[Len(out) - 2].path
                               = arg.input[first].base \o <<"/">> \o MetaDataHeaderName
                         /\ out[Len(out) - 1].path
                               = arg.input[first].base \o <<"/">> \o MetaDataName

\* C32 witness: readme.md and a.nls.metadata.json were written; the stream
\* passed readme.md on and ended after the header and the bundle.
HeaderThenMetaData ==
    /\ arg.stage = "bundleMetaDataFiles" /\ pc = "ended"
    /\ Len(arg.input) = 2
    /\ arg.input[2].relative = <<"a">> \o NLS_METADATA_JSON
    /\ Len(out) = 4
    /\ out[1].path = <<"src", "/", "readme", ".", "md">>
    /\ out[2].path = <<"src", "/">> \o MetaDataHeaderName
    /\ out[3].path = <<"src", "/">> \o MetaDataName
    /\ out[4].event = "end"


\* The events a stage sent while it handled input file i, as [event, path],
\* in the order sent.
SentFor(i) ==
    LET at == {e \in 1..Len(out) : arg.origins[e] = i}
        nth(k) == CHOOSE e \in at : Cardinality({d \in at : d < e}) = k - 1
    IN [k \in 1..Cardinality(at) |-> [event |-> out[nth(k)].event, path |-> out[nth(k)].path]]

\* C33: for every file written to rewriteLocalizeCalls or createMetaDataFiles
\* the stage sent either one error and queued nothing (the file is not a
\* buffer, or the analyzer reported errors), or queued the input file first
\* and then, exactly when the analyzer produced a bundle, <name>.nls.json
\* followed by <name>.nls.metadata.json.
ProcessedFileQueuedFirst ==
    arg.stage \in {"rewriteLocalizeCalls", "createMetaDataFiles"} =>
        \A i \in 1..(arg.next - 1) :
            LET file == arg.input[i]
                path == file.base \o <<"/">> \o file.relative
                name == file.base \o <<"/", file.relative[1]>>
                data(p) == [event |-> "data", path |-> p]
            IN IF ~file.isBuffer \/ file.lib.errors
               THEN /\ Len(SentFor(i)) = 1
                    /\ SentFor(i)[1].event = "error"
               ELSE IF file.lib.bundle
               THEN SentFor(i) = <<data(path), data(name \o NLS_JSON),
                                   data(name \o NLS_METADATA_JSON)>>
               ELSE SentFor(i) = <<data(path)>>

\* C33 witness: createMetaDataFiles was written a.js, which has a bundle, and
\* c.js, which has errors: three files were queued for the first, an error
\* was sent for the second.
BundleQueuedThenError ==
    /\ arg.stage = "createMetaDataFiles" /\ arg.next = 3
    /\ arg.input[1].relative = <<"a", ".", "js">>
    /\ arg.input[2].relative = <<"c", ".", "js">>
    /\ Len(out) = 4
    /\ out[1].path = <<"src", "/", "a", ".", "js">>
    /\ out[2].path = <<"src", "/", "a">> \o NLS_JSON
    /\ out[3].path = <<"src", "/", "a">> \o NLS_METADATA_JSON
    /\ out[4].event = "error"


\* ------------------------------------------------------------------------
\* pushXlfFiles: requests to the remote platform and their promises
\* ------------------------------------------------------------------------
\* The closure of pushXlfFiles and what it started: acc is [requests,
\* tryGetPromises, updateCreatePromises, all, jobs, unhandled]. A request is
\* the promise of one https request, [kind, file, state, value, reactions,
\* phase]; the two lists hold indices of requests; all[1] and all[2] are the
\* promises of Promise.all(tryGetPromises) and Promise.all(updateCreatePromises).
Request(kind, file) ==
    [kind |-> kind, file |-> file, state |-> "pending", value |-> FALSE,
     reactions |-> <<>>, phase |-> "pending"]

\* promise.then(...): the reaction waits on a pending promise and is put in
\* the job queue at once for a settled one.
addReaction(st, r, job) ==
    IF st.acc.requests[r].state = "pending"
    THEN [st EXCEPT !.acc.requests[r].reactions = Append(@, job)]
    ELSE [st EXCEPT !.acc.jobs = enqueueJob(@, job)]

\* resolve(value) or reject(reason) of the promise of a request: a settled
\* promise stays as it is, the reactions of a pending one are queued in the
\* order they were added.
settle(st, r, state, value, phase) ==
    IF st.acc.requests[r].state # "pending" THEN st
    ELSE [st EXCEPT !.acc.requests[r].state = state,
                    !.acc.requests[r].value = value,
                    !.acc.requests[r].phase = phase,
                    !.acc.requests[r].reactions = <<>>,
                    !.acc.jobs = @ \o st.acc.requests[r].reactions]

\* languages?.find(({ id }) => fileName.endsWith(`.${id}.xlf`))
findLanguage(languages, fileName) ==
    IF IsSome(languages)
          /\ \E n \in 1..Len(Get(languages)) :
                EndsWith(fileName, <<".">> \o Get(languages)[n].id \o <<".", "xlf">>)
    THEN LET found == {n \in 1..Len(Get(languages)) :
                          EndsWith(fileName, <<".">> \o Get(languages)[n].id \o <<".", "xlf">>)}
         IN Some(Get(languages)[CHOOSE n \in found : \A m \in found : n <= m])
    ELSE None

\* The write handler: a translation is sent at once, for a resource the
\* existence check is sent and the update or create waits for its answer.
pushXlfFiles(st, languages, file, n) ==
    LET r == Len(st.acc.requests) + 1
    IN IF IsSome(findLanguage(languages, file.fileName))
       THEN [st EXCEPT !.acc.requests = Append(@, Request("translate", n)),
                       !.acc.updateCreatePromises = Append(@, r)]
       ELSE addReaction([st EXCEPT !.acc.requests = Append(@, Request("tryGet", n)),
                                   !.acc.tryGetPromises = Append(@, r)],
                        r, [kind |-> "exists", promise |-> r, all |-> 0])

\* Promise.all(promises).then(...): all of no promises is resolved at once.
RECURSIVE addReactions(_, _, _, _)
addReactions(st, promises, n, which) ==
    IF n > Len(promises) THEN st
    ELSE addReactions(addReaction(st, promises[n],
                                  [kind |-> "all", promise |-> promises[n], all |-> which]),
                      promises, n + 1, which)

promiseAll(st, which, promises, then) ==
    IF Len(promises) = 0
    THEN [st EXCEPT !.acc.all[which] = [state |-> "resolved", waiting |-> 0],
                    !.acc.jobs = enqueueJob(@, then)]
    ELSE addReactions([st EXCEPT !.acc.all[which] =
                                     [state |-> "pending", waiting |-> Len(promises)]],
                      promises, 1, which)

\* An end handler that waits for the update and create promises it finds.
pushXlfFilesEndUpdatesOnly(st) ==
    promiseAll(st, 2, st.acc.updateCreatePromises, [kind |-> "end", promise |-> 0, all |-> 2])

\* The end handler: Promise.all(tryGetPromises).then(() => { ... })
pushXlfFilesEnd(st) ==
    promiseAll(st, 1, st.acc.tryGetPromises, [kind |-> "tryGets", promise |-> 0, all |-> 1])

\* The answer of the remote platform to a request settles its promise:
\* tryGetResource resolves true on 200 and false on 404, createResource
\* resolves on 201, updateResource and translateResource on 200; every other
\* status rejects.
respond(st, r, statusCode, phase) ==
    LET kind == st.acc.requests[r].kind
    IN IF kind = "tryGet"
       THEN IF statusCode = 404 THEN settle(st, r, "resolved", FALSE, phase)
            ELSE IF statusCode = 200 THEN settle(st, r, "resolved", TRUE, phase)
            ELSE settle(st, r, "rejected", FALSE, phase)
       ELSE IF kind = "create"
       THEN IF statusCode = 201 THEN settle(st, r, "resolved", TRUE, phase)
            ELSE settle(st, r, "rejected", FALSE, phase)
       ELSE IF statusCode = 200 THEN settle(st, r, "resolved", TRUE, phase)
            ELSE settle(st, r, "rejected", FALSE, phase)

\* The job at the head of the queue runs.
\*   exists:  exists => { promise = exists ? updateResource(...) :
\*            createResource(...); updateCreatePromises.push(promise) }; a
\*            rejected check rejects the promise then() returned, which has
\*            no handler.
\*   all:     the reaction Promise.all gave one of its promises.
\*   tryGets: () => { Promise.all(updateCreatePromises).then(...) }
\*   end:     () => { this.queue(null); }
\*   catch:   reason => { throw new Error(reason); }
runPushJob(st) ==
    LET job == Head(st.acc.jobs)
        rest == [st EXCEPT !.acc.jobs = Tail(@)]
    IN IF job.kind = "exists"
       THEN IF st.acc.requests[job.promise].state = "resolved"
            THEN [rest EXCEPT
                    !.acc.requests =
                        Append(@, Request(IF st.acc.requests[job.promise].value
                                          THEN "update" ELSE "create",
                                          st.acc.requests[job.promise].file)),
                    !.acc.updateCreatePromises = Append(@, Len(st.acc.requests) + 1)]
            ELSE [rest EXCEPT !.acc.unhandled = Append(@, job.promise)]
       ELSE IF job.kind = "all"
       THEN IF st.acc.all[job.all].state # "pending" THEN rest
            ELSE IF st.acc.requests[job.promise].state = "rejected"
            THEN [rest EXCEPT !.acc.all[job.all].state = "rejected",
                              !.acc.jobs = enqueueJob(@, [kind |-> "catch",
                                                          promise |-> job.promise,
                                                          all |-> job.all])]
            ELSE IF st.acc.all[job.all].waiting = 1
            THEN [rest EXCEPT !.acc.all[job.all] = [state |-> "resolved", waiting |-> 0],
                              !.acc.jobs = enqueueJob(@, [kind |-> IF job.all = 1 THEN "tryGets"
                                                                   ELSE "end",
                                                          promise |-> 0, all |-> job.all])]
            ELSE [rest EXCEPT !.acc.all[job.all].waiting = @ - 1]
       ELSE IF job.kind = "tryGets"
       THEN promiseAll(rest, 2, rest.acc.updateCreatePromises,
                       [kind |-> "end", promise |-> 0, all |-> 2])
       ELSE IF job.kind = "end"
       THEN [rest EXCEPT !.out = Append(@, Event("end", <<>>, <<>>))]
       ELSE [rest EXCEPT !.acc.unhandled = Append(@, job.promise)]

\* ------------------------------------------------------------------------
\* Scenario: pushXlfFiles written a sequence of files and ended, the remote
\* platform answering at any time
\* ------------------------------------------------------------------------
PushFiles ==
    {[project |-> <<"p">>, fileName |-> <<"ext", ".", "xlf">>],
     [project |-> <<"p">>, fileName |-> <<"ext", ".", "de", ".", "xlf">>]}

PushLanguages == {None, Some(<<[id |-> <<"de">>, folderName |-> None]>>)}

StatusCodes == {200, 201, 404}

NoPromise == [state |-> "none", waiting |-> 0]

InitPush ==
    /\ \E input \in BoundedSeq(PushFiles, MaxFiles), languages \in PushLanguages :
          arg = [stage |-> "pushXlfFiles", input |-> input, next |-> 1, origins |-> <<>>,
                 languages |-> languages,
                 st |-> [out |-> <<>>, error |-> None,
                         acc |-> [requests |-> <<>>, tryGetPromises |-> <<>>,
                                  updateCreatePromises |-> <<>>,
                                  all |-> <<NoPromise, NoPromise>>,
                                  jobs |-> <<>>, unhandled |-> <<>>]]]
    /\ files = <<>> /\ buffer = <<>> /\ target = None
    /\ last = Idle
    /\ pc = "streaming" /\ out = <<>>

\* The upstream writes the next file; the jobs of the last task have run.
PushWrite ==
    /\ arg.stage = "pushXlfFiles" /\ pc = "streaming" /\ arg.next <= Len(arg.input)
    /\ arg.st.acc.jobs = <<>>
    /\ arg' = [arg EXCEPT !.next = @ + 1,
                          !.st = pushXlfFiles(arg.st, arg.languages,
                                              arg.input[arg.next], arg.next)]
    /\ UNCHANGED <<files, buffer, target, last, pc, out>>

\* The upstream ends.
PushEnd ==
    /\ arg.stage = "pushXlfFiles" /\ pc = "streaming" /\ arg.next > Len(arg.input)
    /\ arg.st.acc.jobs = <<>>
    /\ arg' = [arg EXCEPT !.st = pushXlfFilesEnd(arg.st)]
    /\ pc' = "ending"
    /\ UNCHANGED <<files, buffer, target, last, out>>

\* The remote platform answers one of the requests that wait for an answer.
PushResponse ==
    /\ arg.stage = "pushXlfFiles" /\ arg.st.acc.jobs = <<>>
    /\ \E r \in 1..Len(arg.st.acc.requests), statusCode \in StatusCodes :
          /\ arg.st.acc.requests[r].state = "pending"
          /\ arg' = [arg EXCEPT !.st = respond(arg.st, r, statusCode, pc)]
    /\ UNCHANGED <<files, buffer, target, last, pc, out>>

\* The event loop runs the next job.
PushJob ==
    /\ arg.stage = "pushXlfFiles" /\ Len(arg.st.acc.jobs) > 0
    /\ \E st \in {runPushJob(arg.st)} :
          /\ arg' = [arg EXCEPT !.st = st]
          /\ out' = st.out
    /\ pc' = IF Head(arg.st.acc.jobs).kind = "end" THEN "ended" ELSE pc
    /\ UNCHANGED <<files, buffer, target, last>>

NextPush == PushWrite \/ PushEnd \/ PushResponse \/ PushJob

SpecPush == InitPush /\ [][NextPush]_vars

\* The requests sent for input file n, by kind.
RequestsFor(n, kind) ==
    {r \in 1..Len(arg.st.acc.requests) :
        arg.st.acc.requests[r].file = n /\ arg.st.acc.requests[r].kind = kind}

\* C34: when pushXlfFiles has signalled the end of the stream, every request
\* it sent has been answered and none is left to send: every file written
\* has its translate request, or its existence check and the update or
\* create request the answer of the check called for, and all of them are
\* resolved, whenever the answers came.
EndAfterAllRequests ==
    (arg.stage = "pushXlfFiles" /\ Sent(out, "end") # {}) =>
        /\ Cardinality(Sent(out, "end")) = 1
        /\ arg.next > Len(arg.input)
        /\ \A r \in 1..Len(arg.st.acc.requests) : arg.st.acc.requests[r].state = "resolved"
        /\ \A n \in 1..Len(arg.input) :
              IF IsSome(findLanguage(arg.languages, arg.input[n].fileName))
              THEN Cardinality(RequestsFor(n, "translate")) = 1
              ELSE /\ Cardinality(RequestsFor(n, "tryGet")) = 1
                   /\ \A r \in RequestsFor(n, "tryGet") :
                         Cardinality(RequestsFor(n, IF arg.st.acc.requests[r].value
                                                    THEN "update" ELSE "create")) = 1

\* C34 witness: a resource and a translation were written; the existence
\* check was answered with 404 only after the end of the input, the create
\* request was sent and answered after that, and then the stream ended.
EndedAfterLateCreate ==
    /\ arg.stage = "pushXlfFiles" /\ pc = "ended"
    /\ Len(arg.input) = 2
    /\ Len(arg.st.acc.requests) = 3
    /\ arg.st.acc.requests[1].kind = "tryGet"
    /\ arg.st.acc.requests[1].phase = "ending"
    /\ arg.st.acc.requests[2].kind = "translate"
    /\ arg.st.acc.requests[3].kind = "create"
    /\ arg.st.acc.requests[3].state = "resolved"
    /\ out = <<Event("end", <<>>, <<>>)>>


\* ------------------------------------------------------------------------
\* pullXlfFiles: a readable stream fed by requests to the remote platform
\* ------------------------------------------------------------------------
\* resource.name.replace(/\//g, '_')
RECURSIVE slugOf(_)
slugOf(name) ==
    IF name = <<>> THEN <<>>
    ELSE <<IF Head(name) = "/" THEN "_" ELSE Head(name)>> \o slugOf(Tail(name))

\* `${project}/${slug}.${transifexLanguageId}.xlf`
retrievedPath(resource, language) ==
    resource.project \o <<"/">> \o slugOf(resource.name) \o <<".">> \o language.id
        \o <<".", "xlf">>

\* if (!Array.isArray(languages)) { languages = [languages]; }
asArray(languages) ==
    IF languages.isArray THEN languages.value ELSE <<Get(languages.value)>>

\* for (const resource of resources) for (const language of languages)
\*     retrieveResource(language, resource, ...).then(...).catch(...)
RECURSIVE retrieveAll(_, _, _, _, _)
retrieveAll(requests, resources, languages, i, j) ==
    IF i > Len(resources) THEN requests
    ELSE IF j > Len(languages) THEN retrieveAll(requests, resources, languages, i + 1, 1)
    ELSE retrieveAll(Append(requests, [resource |-> resources[i], language |-> languages[j],
                                       state |-> "pending"]),
                     resources, languages, i, j + 1)

\* The closure of pullXlfFiles and the stream of readable(): acc is
\* [expectedTranslationsCount, translationsRetrieved, called, reading, ended,
\* requests, jobs, unhandled].
pullXlfFilesNew(languages, resources) ==
    [out |-> <<>>, error |-> None,
     acc |-> [expectedTranslationsCount |-> Len(asArray(languages)) * Len(resources),
              translationsRetrieved |-> 0, called |-> FALSE, reading |-> FALSE,
              ended |-> FALSE, requests |-> <<>>, jobs |-> <<>>, unhandled |-> <<>>]]

\* A function that marks the end as soon as the requests were sent.
pullXlfFilesEndWhenCalled(st, languages, resources) ==
    IF st.acc.called
    THEN [st EXCEPT !.out = Append(@, Event("end", <<>>, <<>>)),
                    !.acc.reading = TRUE, !.acc.ended = TRUE]
    ELSE [st EXCEPT !.acc.called = TRUE,
                    !.acc.requests = retrieveAll(@, resources, asArray(languages), 1, 1)]

\* One call of the function given to readable(): it marks the end, or sends
\* the requests on its first call, and calls back to be called again.
pullXlfFiles(st, languages, resources) ==
    IF st.acc.translationsRetrieved = st.acc.expectedTranslationsCount
    THEN [st EXCEPT !.out = Append(@, Event("end", <<>>, <<>>)),
                    !.acc.reading = TRUE, !.acc.ended = TRUE]
    ELSE IF ~st.acc.called
    THEN [st EXCEPT !.acc.called = TRUE,
                    !.acc.requests = retrieveAll(@, resources, asArray(languages), 1, 1)]
    ELSE st

\* res.on('end'): retrieveResource resolves its promise with the file on
\* status 200 and rejects it on any other; the reaction of then() is queued.
retrieveResource(st, r, statusCode) ==
    [st EXCEPT !.acc.requests[r].state = IF statusCode = 200 THEN "resolved" ELSE "rejected",
               !.acc.jobs = enqueueJob(@, [kind |-> "then", promise |-> r])]

\* The job at the head of the queue runs.
\*   then:  (file) => { stream.emit('data', file); translationsRetrieved++; };
\*          a rejected promise rejects the promise then() returned, whose
\*          reaction is the catch handler.
\*   catch: error => { throw new Error(error); }
runPullJob(st) ==
    LET job == Head(st.acc.jobs)
        rest == [st EXCEPT !.acc.jobs = Tail(@)]
        request == st.acc.requests[job.promise]
    IN IF job.kind = "then"
       THEN IF request.state = "resolved"
            THEN [rest EXCEPT !.out = Append(@, Event("data",
                                                      retrievedPath(request.resource,
                                                                    request.language),
                                                      <<>>)),
                              !.acc.translationsRetrieved = @ + 1]
            ELSE [rest EXCEPT !.acc.jobs = enqueueJob(@, [kind |-> "catch",
                                                          promise |-> job.promise])]
       ELSE [rest EXCEPT !.acc.unhandled = Append(@, job.promise)]

\* ------------------------------------------------------------------------
\* Scenario: pullXlfFiles called with languages and resources, the stream
\* read and the remote platform answering at any time
\* ------------------------------------------------------------------------
\* languages is [isArray, value]: a list of languages, or Some(language) for
\* the call with one language that is not in a list.
PullResources ==
    {[project |-> <<"p">>, name |-> <<"ext">>],
     [project |-> <<"p">>, name |-> <<"pkg", "/", "ui">>],
     [project |-> <<"q">>, name |-> <<"ext">>]}

PullLanguages ==
    {[isArray |-> FALSE, value |-> Some([id |-> <<"de">>, folderName |-> None])],
     [isArray |-> TRUE, value |-> <<>>],
     [isArray |-> TRUE, value |-> <<[id |-> <<"de">>, folderName |-> None]>>],
     [isArray |-> TRUE, value |-> <<[id |-> <<"de">>, folderName |-> None],
                                    [id |-> <<"fr">>, folderName |-> Some(<<"fra">>)]>>]}

\* Lists of different resources.
Distinct(list) == \A i, j \in 1..Len(list) : list[i] = list[j] => i = j

InitPull ==
    /\ \E languages \in PullLanguages,
          resources \in {list \in BoundedSeq(PullResources, MaxFiles) : Distinct(list)} :
          arg = [stage |-> "pullXlfFiles", input |-> resources, next |-> 1, origins |-> <<>>,
                 languages |-> languages,
                 st |-> pullXlfFilesNew(languages, resources)]
    /\ files = <<>> /\ buffer = <<>> /\ target = None
    /\ last = Idle
    /\ pc = "streaming" /\ out = <<>>

\* readable() calls the function again, in a task of its own, as long as the
\* stream has not ended and the last call has called back.
PullRead ==
    /\ arg.stage = "pullXlfFiles" /\ arg.st.acc.jobs = <<>>
    /\ ~arg.st.acc.ended /\ ~arg.st.acc.reading
    /\ \E st \in {pullXlfFiles(arg.st, arg.languages, arg.input)} :
          /\ arg' = [arg EXCEPT !.st = st]
          /\ out' = st.out
          /\ pc' = IF st.acc.ended THEN "ended" ELSE pc
    /\ UNCHANGED <<files, buffer, target, last>>

\* The remote platform answers one of the requests that wait for an answer.
PullResponse ==
    /\ arg.stage = "pullXlfFiles" /\ arg.st.acc.jobs = <<>>
    /\ \E r \in 1..Len(arg.st.acc.requests), statusCode \in {200, 404} :
          /\ arg.st.acc.requests[r].state = "pending"
          /\ arg' = [arg EXCEPT !.st = retrieveResource(arg.st, r, statusCode)]
    /\ UNCHANGED <<files, buffer, target, last, pc, out>>

\* The event loop runs the next job.
PullJob ==
    /\ arg.stage = "pullXlfFiles" /\ Len(arg.st.acc.jobs) > 0
    /\ \E st \in {runPullJob(arg.st)} :
          /\ arg' = [arg EXCEPT !.st = st]
          /\ out' = st.out
    /\ UNCHANGED <<files, buffer, target, last, pc>>

NextPull == PullRead \/ PullResponse \/ PullJob

SpecPull == InitPull /\ [][NextPull]_vars

\* The event loop runs every task and job that is ready; the remote
\* platform may never answer.
SpecPullFair == SpecPull /\ WF_vars(PullRead) /\ WF_vars(PullJob)


\* The (resource, language) pairs pullXlfFiles was called with, by position.
PullPairs ==
    (1..Len(arg.input)) \X (1..Len(asArray(arg.languages)))

\* The requests sent for a pair, and the files emitted for it.
RequestedFor(pair) ==
    {r \in 1..Len(arg.st.acc.requests) :
        /\ arg.st.acc.requests[r].resource = arg.input[pair[1]]
        /\ arg.st.acc.requests[r].language = asArray(arg.languages)[pair[2]]}

EmittedFor(pair) ==
    {e \in Sent(out, "data") :
        out[e].path = retrievedPath(arg.input[pair[1]], asArray(arg.languages)[pair[2]])}

\* No pair is requested twice, and a stream that has emitted 'end' has
\* emitted it once, as its last event, after one file for every pair.
EndAfterEveryPair ==
    arg.stage = "pullXlfFiles" =>
        /\ Len(arg.st.acc.requests) \in {0, Cardinality(PullPairs)}
        /\ \A pair \in PullPairs : Cardinality(RequestedFor(pair)) <= 1
        /\ Sent(out, "end") # {} =>
              /\ Sent(out, "end") = {Len(out)}
              /\ Cardinality(Sent(out, "data")) = Cardinality(PullPairs)
              /\ \A pair \in PullPairs :
                    Cardinality(RequestedFor(pair)) = 1 /\ Cardinality(EmittedFor(pair)) = 1

\* Every pair was requested and every request has retrieved its file.
AllRetrieved ==
    /\ arg.stage = "pullXlfFiles"
    /\ \A pair \in PullPairs :
          /\ RequestedFor(pair) # {}
          /\ \A r \in RequestedFor(pair) : arg.st.acc.requests[r].state = "resolved"

\* C35: pullXlfFiles requests each (resource, language) pair once; the stream
\* emits 'end' only after it has emitted one file for every pair, that is
\* languages.length x resources.length files, and no file after 'end'; and
\* once every retrieval has resolved the stream emits 'end'.
PullEndsWhenAllRetrieved ==
    /\ []EndAfterEveryPair
    /\ AllRetrieved ~> (Sent(out, "end") # {})

\* C35 witness: two resources and one language given outside a list; the
\* second resource was retrieved first, and the stream ended after both.
EndedAfterTwoRetrievals ==
    /\ arg.stage = "pullXlfFiles" /\ pc = "ended"
    /\ ~arg.languages.isArray
    /\ Len(arg.input) = 2
    /\ arg.input[2].name = <<"pkg", "/", "ui">>
    /\ out = <<Event("data", <<"p", "/", "pkg", "_", "ui", ".", "de", ".", "xlf">>, <<>>),
               Event("data", <<"p", "/", "ext", ".", "de", ".", "xlf">>, <<>>),
               Event("end", <<>>, <<>>)>>

=============================================================================
